---- MODULE Spec2Model ----
(***************************************************************************)
(* Model of the LUNA25 evaluation-platform client: the session store       *)
(* (state/auth.jsx), the navigation shell and role guard (main.jsx), the   *)
(* requests the views issue, and the response normalizers of the           *)
(* Submissions and Datasets views.                                         *)
(***************************************************************************)
EXTENDS Integers, Sequences, FiniteSets, TLC

VARIABLES
    token,          \* AuthProvider state `token` ("" when no credential)
    user,           \* AuthProvider state `user` (NoUser when null)
    storage,        \* localStorage, a set of <<key, value>> pairs
    location,       \* the router's current path
    pendingLogins,  \* POST /auth/login requests not answered yet
    pendingMe,      \* GET /users/me requests not answered yet, per token
    sent,           \* the requests issued by the last handler, in order
    lastOp,         \* the handler that ran last
    err,            \* LoginPage state `err`
    srvSubmissions, \* the body the backend answers GET /submissions with
    srvDatasets,    \* the body the backend answers GET /datasets with
    submissions,    \* Submissions view state `submissions`
    datasets,       \* Submissions view state `datasets`
    selectedDatasetId, \* Submissions view state `selectedDatasetId` (its text)
    subLoading,     \* Submissions view state `loading`
    subMsg,         \* Submissions view state `msg`
    loadAlls,       \* the calls of loadAll that have not returned yet
    page,           \* Datasets view state `page`
    items,          \* Datasets view state `items`
    total,          \* Datasets view state `total`
    dsLoading,      \* Datasets view state `loading`
    dsMsg,          \* Datasets view state `msg`
    loads,          \* the calls of the Datasets view's load that have not returned yet
    pgDatasets,     \* Submissions page (pages/Submissions.jsx) state `datasets`
    pgItems,        \* Submissions page state `items`
    pgDatasetId,    \* Submissions page state `datasetId` (its text)
    pgPage,         \* Submissions page state `page`
    pgRequests,     \* the requests of the Submissions page not answered yet
    unhandled,      \* the requests whose rejection no handler has received
    dataFile,       \* Datasets view state `dataFile` ("" when null)
    gtFile,         \* Datasets view state `gtFile` ("" when null)
    uploads,        \* POST /datasets/ requests not answered yet
    srvLeaderboard, \* the body the backend answers GET /leaderboard/ with
    lbItems,        \* Leaderboard view state `items`
    lbDatasets,     \* Leaderboard view state `datasets`
    lbMetric,       \* Leaderboard view state `metric`
    lbLoads         \* the calls of the Leaderboard view's load that have not returned yet

sessionVars == <<token, user, storage, location, pendingLogins, pendingMe, sent, lastOp, err>>
backendVars == <<srvSubmissions, srvDatasets, srvLeaderboard>>
submissionsVars == <<submissions, datasets, selectedDatasetId, subLoading, subMsg, loadAlls>>
datasetsVars == <<page, items, total, dsLoading, dsMsg, loads>>
pageVars == <<pgDatasets, pgItems, pgDatasetId, pgPage, pgRequests, unhandled>>
formVars == <<dataFile, gtFile, uploads>>
boardVars == <<lbItems, lbDatasets, lbMetric, lbLoads>>
viewVars == <<srvSubmissions, srvDatasets,
              submissions, datasets, selectedDatasetId, subLoading, subMsg, loadAlls,
              page, items, total, dsLoading, dsMsg, loads,
              pgDatasets, pgItems, pgDatasetId, pgPage, pgRequests, unhandled,
              dataFile, gtFile, uploads, srvLeaderboard, lbItems, lbDatasets, lbMetric, lbLoads>>
vars == <<token, user, storage, location, pendingLogins, pendingMe, sent, lastOp, err,
          srvSubmissions, srvDatasets,
          submissions, datasets, selectedDatasetId, subLoading, subMsg, loadAlls,
          page, items, total, dsLoading, dsMsg, loads,
          pgDatasets, pgItems, pgDatasetId, pgPage, pgRequests, unhandled,
          dataFile, gtFile, uploads, srvLeaderboard, lbItems, lbDatasets, lbMetric, lbLoads>>

----------------------------------------------------------------------------
(* Bounds *)

MaxPendingLogins == 2
MaxPendingMe == 2
MaxRedirects == 3
MaxLoads == 1
MaxLen == 2
MaxNum == 1
MaxEntries == 2
MaxKeys == 2
MaxUploads == 1
MaxFields == 2
MaxPage == 2

----------------------------------------------------------------------------
(* Backend answers (the external collaborator) *)

\* access tokens POST /auth/login can answer with
Tokens == {"abc", "xyz"}

\* `detail` messages of a rejected login ("" when the answer carries none)
LoginDetails == {"", "Incorrect username or password"}

NoUser == [username |-> "", role |-> ""]

\* the profile GET /users/me answers with for a token
ProfileOf(t) ==
    IF t = "abc" THEN [username |-> "admin", role |-> "admin"]
    ELSE [username |-> "alice", role |-> "user"]

----------------------------------------------------------------------------
(* Durable storage *)

\* localStorage.getItem(k) || ''
GetItemOrEmpty(store, k) ==
    IF \E p \in store : p[1] = k
    THEN (CHOOSE p \in store : p[1] = k)[2]
    ELSE ""

\* localStorage.setItem(k, v)
SetItem(store, k, v) == {p \in store : p[1] # k} \cup {<<k, v>>}

\* localStorage.removeItem(k)
RemoveItem(store, k) == {p \in store : p[1] # k}

----------------------------------------------------------------------------
(* Requests *)

NoHeaders == {}

\* const authHeader = token ? { Authorization: `Bearer ${token}` } : {}
authHeader(tok) ==
    IF tok # "" THEN {<<"Authorization", "Bearer " \o tok>>} ELSE NoHeaders

Req(by, method, path, headers) ==
    [by |-> by, method |-> method, path |-> path, headers |-> headers]

\* axios.get(`${API}/users/me`, { headers: { Authorization: `Bearer ${token}` } })
MeRequest(tok) ==
    Req("session", "GET", "/users/me", {<<"Authorization", "Bearer " \o tok>>})

\* axios.post(`${API}/auth/login`, data)
LoginRequest == Req("session", "POST", "/auth/login", NoHeaders)

----------------------------------------------------------------------------
(* Navigation shell *)

ShellRoutes == {"/", "/datasets", "/submissions", "/submissions/:id", "/leaderboard",
                "/apitest", "/notebook", "/users"}

Paths == {"/login"} \cup ShellRoutes

View(name) == [kind |-> "view", arg |-> name]
NavigateTo(path) == [kind |-> "navigate", arg |-> path]

\* LoginPage without its redirect of a signed-in user
LoginPage_NoRedirect(tok) == View("LoginForm")

\* function LoginPage: if (token) return <Navigate to="/" />
LoginPage(tok) == IF tok # "" THEN NavigateTo("/") ELSE View("LoginForm")

\* RoleRoute without the roles.includes test
RoleRoute_NoRoleCheck(roles, children, usr) ==
    IF usr = NoUser THEN NavigateTo("/login") ELSE children

\* function RoleRoute({roles, children})
RoleRoute(roles, children, usr) ==
    IF usr = NoUser THEN NavigateTo("/login")
    ELSE IF usr.role \notin roles THEN View("PermissionDenied")
    ELSE children

\* the <Routes> table inside AppShell
RouteElement(path, usr) ==
    CASE path = "/" -> View("Dashboard")
      [] path = "/datasets" -> View("Datasets")
      [] path = "/submissions" -> View("Submissions")
      [] path = "/submissions/:id" -> View("SubmissionDetail")
      [] path = "/leaderboard" -> View("Leaderboard")
      [] path = "/apitest" -> RoleRoute({"admin"}, View("ApiTest"), usr)
      [] path = "/notebook" -> View("Notebook")
      [] OTHER -> View("Users")

\* function AppShell: if (!token) return <Navigate to="/login" />
AppShell(path, tok, usr) ==
    IF tok = "" THEN NavigateTo("/login") ELSE RouteElement(path, usr)

\* function Root: /login -> LoginPage, /* -> AppShell
Render(path, tok, usr) ==
    IF path = "/login" THEN LoginPage(tok) ELSE AppShell(path, tok, usr)

\* the path the router rests on once every <Navigate> rendered has taken effect
RECURSIVE Settle(_, _, _, _)
Settle(path, tok, usr, fuel) ==
    LET r == Render(path, tok, usr) IN
    IF r.kind = "navigate" /\ fuel > 0
    THEN Settle(r.arg, tok, usr, fuel - 1)
    ELSE path

\* what the screen shows
Screen == Render(location, token, user).arg

----------------------------------------------------------------------------
(* Requests the views issue when they mount *)

ViewReq(method, path, headers) == Req("view", method, path, headers)

\* Dashboard.jsx useEffect
DashboardMount(tok) ==
    << ViewReq("GET", "/datasets/", NoHeaders),
       ViewReq("GET", "/submissions/", authHeader(tok)) >>

\* Submissions.jsx load (page 1, no dataset filter)
SubmissionsMount(tok) ==
    << ViewReq("GET", "/datasets/", NoHeaders),
       ViewReq("GET", "/submissions/?page=1&page_size=20", authHeader(tok)) >>

\* Datasets.jsx load (page 1)
DatasetsMount(tok) ==
    << ViewReq("GET", "/datasets?page=1&page_size=20", authHeader(tok)) >>

\* SubmissionDetail.jsx useEffect
SubmissionDetailMount(tok) ==
    << ViewReq("GET", "/submissions/:id", authHeader(tok)) >>

\* Leaderboard.jsx load, up to its first await
LeaderboardMount(tok) ==
    << ViewReq("GET", "/datasets/", authHeader(tok)) >>

\* ApiTest.jsx useEffect
ApiTestMount(tok) ==
    << ViewReq("GET", "/apitest/samples", NoHeaders) >>

MountRequests(view, tok) ==
    CASE view = "Dashboard" -> DashboardMount(tok)
      [] view = "Submissions" -> SubmissionsMount(tok)
      [] view = "Datasets" -> DatasetsMount(tok)
      [] view = "SubmissionDetail" -> SubmissionDetailMount(tok)
      [] view = "Leaderboard" -> LeaderboardMount(tok)
      [] view = "ApiTest" -> ApiTestMount(tok)
      [] OTHER -> << >>

\* the requests of the view a render mounts (none when the view stays mounted)
Mounted(oldView, newPath, tok, usr) ==
    LET newView == Render(newPath, tok, usr).arg IN
    IF newView # oldView THEN MountRequests(newView, tok) ELSE << >>

----------------------------------------------------------------------------
(* JSON values as the views receive them.  A value is a record tagged by k;    *)
(* an object holds a function from its own keys to values, a string holds its  *)
(* text as a sequence of lexical tokens.                                       *)

Undefined == [k |-> "undefined"]
Null == [k |-> "null"]
Num(n) == [k |-> "number", n |-> n]
Str(text) == [k |-> "string", text |-> text]
Arr(list) == [k |-> "array", list |-> list]
Obj(f) == [k |-> "object", f |-> f]
Bool(b) == [k |-> "boolean", b |-> b]

EmptyObj == Obj([x \in {} |-> Undefined])

\* typeof v
TypeOf(v) ==
    CASE v.k = "undefined" -> "undefined"
      [] v.k = "number" -> "number"
      [] v.k = "string" -> "string"
      [] v.k = "boolean" -> "boolean"
      [] OTHER -> "object"

\* ToBoolean(v)
Truthy(v) ==
    CASE v.k = "undefined" -> FALSE
      [] v.k = "null" -> FALSE
      [] v.k = "number" -> v.n # 0
      [] v.k = "string" -> v.text # << >>
      [] v.k = "boolean" -> v.b
      [] OTHER -> TRUE

\* v === undefined || v === null
Nullish(v) == v.k \in {"undefined", "null"}

\* a ?? b
Coalesce(a, b) == IF Nullish(a) THEN b ELSE a

\* a || b
OrElse(a, b) == IF Truthy(a) THEN a ELSE b

\* v[key] for a value that is not null or undefined
Get(v, key) ==
    IF v.k = "object" /\ key \in DOMAIN v.f THEN v.f[key] ELSE Undefined

\* o[key] = val
Put(o, key, val) ==
    Obj([x \in (DOMAIN o.f) \cup {key} |-> IF x = key THEN val ELSE o.f[x]])

\* Object.keys(v) of an object, in insertion order of the known keys
KeyOrder == << "id", "name", "score_json", "metrics", "results",
               "f1", "precision", "recall", "accuracy", "auc", "score",
               "AUC", "F1", "Accuracy", "Recall",
               "uploaded_at", "created_at", "created",
               "filename", "file_name", "file_path", "path", "storage_path",
               "items", "data", "total", "total_items", "count", "detail",
               "total_rows", "total_samples", "stats_json", "stats", "stats_raw",
               "dataset_id", "evaluated", "is_official" >>

KeysOf(v) ==
    IF v.k = "object"
    THEN SelectSeq(KeyOrder, LAMBDA x : x \in DOMAIN v.f)
    ELSE << >>

\* Array.isArray(v)
IsArray(v) == v.k = "array"

\* v.length
LengthOf(v) ==
    CASE v.k = "array" -> Num(Len(v.list))
      [] v.k = "string" -> Num(Len(v.text))
      [] OTHER -> Get(v, "length")

(* Lexical tokens of a text *)
Punct(c) == [t |-> "punct", c |-> c]
Word(w) == [t |-> "word", w |-> w]
Numeral(n) == [t |-> "numeral", n |-> n]
NullWord == [t |-> "null"]
Quoted(text) == [t |-> "quoted", text |-> text]

\* JSON.parse: the grammar of values built from numbers, null, quoted words,
\* quoted texts and objects.  The result is [ok, val, next]; ok = FALSE stands for the SyntaxError.
ParseFail == [ok |-> FALSE, val |-> Undefined, next |-> 0]

RECURSIVE ParseValue(_, _), ParseMembers(_, _, _)
ParseValue(toks, i) ==
    IF i > Len(toks) THEN ParseFail
    ELSE LET tok == toks[i] IN
         CASE tok.t = "numeral" -> [ok |-> TRUE, val |-> Num(tok.n), next |-> i + 1]
           [] tok.t = "null" -> [ok |-> TRUE, val |-> Null, next |-> i + 1]
           [] tok.t = "word" -> [ok |-> TRUE, val |-> Str(<<tok>>), next |-> i + 1]
           [] tok.t = "quoted" -> [ok |-> TRUE, val |-> Str(tok.text), next |-> i + 1]
           [] tok = Punct("{") ->
                IF i + 1 <= Len(toks) /\ toks[i + 1] = Punct("}")
                THEN [ok |-> TRUE, val |-> EmptyObj, next |-> i + 2]
                ELSE ParseMembers(toks, i + 1, EmptyObj)
           [] OTHER -> ParseFail

\* "key" : value , ... }
ParseMembers(toks, i, acc) ==
    IF i + 1 > Len(toks) THEN ParseFail
    ELSE IF toks[i].t # "word" \/ toks[i + 1] # Punct(":") THEN ParseFail
    ELSE LET r == ParseValue(toks, i + 2) IN
         IF ~r.ok \/ r.next > Len(toks) THEN ParseFail
         ELSE LET acc2 == Put(acc, toks[i].w, r.val) IN
              IF toks[r.next] = Punct("}")
              THEN [ok |-> TRUE, val |-> acc2, next |-> r.next + 1]
              ELSE IF toks[r.next] = Punct(",")
              THEN ParseMembers(toks, r.next + 1, acc2)
              ELSE ParseFail

JSONParse(text) ==
    LET r == ParseValue(text, 1) IN
    IF r.ok /\ r.next = Len(text) + 1 THEN r ELSE ParseFail

\* the JSON text the backend writes for a value
RECURSIVE Encode(_), EncodeMembers(_, _)
Encode(v) ==
    CASE v.k = "number" -> <<Numeral(v.n)>>
      [] v.k = "object" -> <<Punct("{")>> \o EncodeMembers(v, KeysOf(v)) \o <<Punct("}")>>
      [] v.k = "string" -> IF Len(v.text) = 1 /\ v.text[1].t = "word"
                           THEN v.text ELSE <<Quoted(v.text)>>
      [] OTHER -> <<NullWord>>

EncodeMembers(v, keys) ==
    IF keys = << >> THEN << >>
    ELSE <<Word(keys[1]), Punct(":")>> \o Encode(v.f[keys[1]])
         \o (IF Len(keys) > 1 THEN <<Punct(",")>> ELSE << >>)
         \o EncodeMembers(v, Tail(keys))

----------------------------------------------------------------------------
(* Submissions view: normalization of one submission (loadAll, the map callback) *)

MetricKeys == <<"f1", "precision", "recall", "accuracy", "auc">>

MetricKeySet == {MetricKeys[i] : i \in DOMAIN MetricKeys}

\* const copy = { ...s }
Spread(v) == IF v.k = "object" THEN v ELSE EmptyObj

\* UnwrapMetrics with the metrics of the record kept when score_json does not parse
UnwrapMetrics_KeepsMetrics(copy) ==
    LET sj == Get(copy, "score_json")
        c1 == IF Truthy(sj) /\ TypeOf(sj) = "string"
              THEN LET r == JSONParse(sj.text) IN
                   IF r.ok THEN Put(copy, "metrics", r.val) ELSE copy
              ELSE IF Truthy(sj) /\ TypeOf(sj) = "object"
              THEN Put(copy, "metrics", Coalesce(Get(copy, "metrics"), sj))
              ELSE copy
        m1 == Get(c1, "metrics")
    IN  IF TypeOf(m1) = "string"
        THEN LET r == JSONParse(m1.text) IN
             IF r.ok THEN Put(c1, "metrics", r.val) ELSE c1
        ELSE c1

\* UnwrapMetrics without the parse of a metrics string
UnwrapMetrics_NoSecondParse(copy) ==
    LET sj == Get(copy, "score_json") IN
    IF Truthy(sj) /\ TypeOf(sj) = "string"
    THEN LET r == JSONParse(sj.text) IN
         Put(copy, "metrics", IF r.ok THEN r.val ELSE Undefined)
    ELSE IF Truthy(sj) /\ TypeOf(sj) = "object"
    THEN Put(copy, "metrics", Coalesce(Get(copy, "metrics"), sj))
    ELSE copy

\* score_json -> metrics, then metrics parsed if it is still a JSON string
UnwrapMetrics(copy) ==
    LET sj == Get(copy, "score_json")
        c1 == IF Truthy(sj) /\ TypeOf(sj) = "string"
              THEN LET r == JSONParse(sj.text) IN
                   Put(copy, "metrics", IF r.ok THEN r.val ELSE Undefined)
              ELSE IF Truthy(sj) /\ TypeOf(sj) = "object"
              THEN Put(copy, "metrics", Coalesce(Get(copy, "metrics"), sj))
              ELSE copy
        m1 == Get(c1, "metrics")
    IN  IF TypeOf(m1) = "string"
        THEN LET r == JSONParse(m1.text) IN
             IF r.ok THEN Put(c1, "metrics", r.val) ELSE c1
        ELSE c1

\* ["f1", ...].forEach(k => { if (copy[k] === undefined && copy.metrics[k] !== undefined) ... })
RECURSIVE PromoteDirect(_, _, _)
PromoteDirect(copy, m, keys) ==
    IF keys = << >> THEN copy
    ELSE LET key == keys[1]
             c2 == IF Get(copy, key) = Undefined /\ Get(m, key) # Undefined
                   THEN Put(copy, key, Get(m, key))
                   ELSE copy
         IN  PromoteDirect(c2, m, Tail(keys))

\* Object.keys(copy.metrics.results).forEach(mk => { ... })
RECURSIVE PromoteResults(_, _, _)
PromoteResults(copy, res, keys) ==
    IF keys = << >> THEN copy
    ELSE LET mk == keys[1]
             c2 == IF mk \in MetricKeySet /\ Get(copy, mk) = Undefined
                   THEN Put(copy, mk, Get(res, mk))
                   ELSE copy
         IN  PromoteResults(c2, res, Tail(keys))

\* PromoteMetrics with the nested results promoted before the direct keys
PromoteMetrics_ResultsFirst(copy) ==
    LET m == Get(copy, "metrics") IN
    IF Truthy(m) /\ TypeOf(m) = "object"
    THEN LET res == Get(m, "results")
             c1 == IF Truthy(res) /\ TypeOf(res) = "object"
                   THEN PromoteResults(copy, res, KeysOf(res))
                   ELSE copy
         IN  PromoteDirect(c1, m, MetricKeys)
    ELSE copy

\* promote common metric keys from metrics or nested structures
PromoteMetrics(copy) ==
    LET m == Get(copy, "metrics") IN
    IF Truthy(m) /\ TypeOf(m) = "object"
    THEN LET c1 == PromoteDirect(copy, m, MetricKeys)
             res == Get(m, "results")
         IN  IF Truthy(res) /\ TypeOf(res) = "object"
             THEN PromoteResults(c1, res, KeysOf(res))
             ELSE c1
    ELSE copy

\* CrossField with the score alias taken from accuracy before auc
CrossField_AccuracyFirst(copy) ==
    LET c1 == IF Get(copy, "accuracy") = Undefined /\ Get(copy, "auc") # Undefined
              THEN Put(copy, "accuracy", Get(copy, "auc")) ELSE copy
        c2 == IF Get(c1, "score") = Undefined /\ Get(c1, "accuracy") # Undefined
              THEN Put(c1, "score", Get(c1, "accuracy")) ELSE c1
    IN  IF Get(c2, "score") = Undefined /\ Get(c2, "auc") # Undefined
        THEN Put(c2, "score", Get(c2, "auc")) ELSE c2

\* map auc -> accuracy/score; score alias from accuracy
CrossField(copy) ==
    LET c1 == IF Get(copy, "accuracy") = Undefined /\ Get(copy, "auc") # Undefined
              THEN Put(copy, "accuracy", Get(copy, "auc")) ELSE copy
        c2 == IF Get(c1, "score") = Undefined /\ Get(c1, "auc") # Undefined
              THEN Put(c1, "score", Get(c1, "auc")) ELSE c1
    IN  IF Get(c2, "score") = Undefined /\ Get(c2, "accuracy") # Undefined
        THEN Put(c2, "score", Get(c2, "accuracy")) ELSE c2

\* uploaded time fallback
TimeFallback(copy) ==
    IF ~Truthy(Get(copy, "uploaded_at"))
    THEN IF Truthy(Get(copy, "created_at"))
         THEN Put(copy, "uploaded_at", Get(copy, "created_at"))
         ELSE IF Truthy(Get(copy, "created"))
         THEN Put(copy, "uploaded_at", Get(copy, "created"))
         ELSE copy
    ELSE copy

\* String(v)
ToText(v) ==
    CASE v.k = "string" -> v.text
      [] v.k = "number" -> <<Numeral(v.n)>>
      [] v.k = "undefined" -> <<Word("undefined")>>
      [] v.k = "null" -> <<Word("null")>>
      [] v.k = "boolean" -> <<Word(IF v.b THEN "true" ELSE "false")>>
      [] OTHER -> <<Word("[object Object]")>>

\* text.split(sep).pop(): what follows the last separator
LastSegment(text, sep) ==
    IF \E i \in DOMAIN text : text[i] = Punct(sep)
    THEN LET i == CHOOSE j \in DOMAIN text :
                     text[j] = Punct(sep) /\ \A l \in DOMAIN text : l > j => text[l] # Punct(sep)
         IN  SubSeq(text, i + 1, Len(text))
    ELSE text

\* the filename rule reading the fields in the opposite order
FilenameFallback_LastField(copy) ==
    IF ~Truthy(Get(copy, "filename"))
    THEN LET f == OrElse(OrElse(OrElse(Get(copy, "storage_path"), Get(copy, "path")),
                                Get(copy, "file_path")), Get(copy, "file_name"))
         IN  IF Truthy(f)
             THEN Put(copy, "filename", Str(LastSegment(LastSegment(ToText(f), "/"), "\\")))
             ELSE copy
    ELSE copy

\* filename fallback from other possible fields
FilenameFallback(copy) ==
    IF ~Truthy(Get(copy, "filename"))
    THEN LET f == OrElse(OrElse(OrElse(Get(copy, "file_name"), Get(copy, "file_path")),
                                Get(copy, "path")), Get(copy, "storage_path"))
         IN  IF Truthy(f)
             THEN Put(copy, "filename", Str(LastSegment(LastSegment(ToText(f), "/"), "\\")))
             ELSE copy
    ELSE copy

\* the callback of (Array.isArray(sItems) ? sItems : []).map(...)
NormalizeSubmission(s) ==
    FilenameFallback(TimeFallback(CrossField(PromoteMetrics(UnwrapMetrics(Spread(s))))))

\* const sItems = sJson.items ?? sJson.results ?? sJson.data ?? sJson ?? []
UnwrapList(json) ==
    Coalesce(Coalesce(Coalesce(Coalesce(Get(json, "items"), Get(json, "results")),
                               Get(json, "data")), json), Arr(<< >>))

\* (Array.isArray(sItems) ? sItems : []).map(normalize)
NormalizeSubmissions(json) ==
    LET sItems == UnwrapList(json) IN
    IF IsArray(sItems)
    THEN Arr([i \in DOMAIN sItems.list |-> NormalizeSubmission(sItems.list[i])])
    ELSE Arr(<< >>)

----------------------------------------------------------------------------
(* Session store: state/auth.jsx *)

\* AuthProvider mounts: useState(localStorage.getItem('token') || ''), then the effect
SessionInit ==
    /\ storage \in {{}} \cup {{<<"token", t>>} : t \in Tokens}
    /\ token = GetItemOrEmpty(storage, "token")
    /\ user = NoUser
    /\ pendingLogins = 0
    /\ pendingMe = [t \in Tokens |-> IF t = token THEN 1 ELSE 0]
    /\ \E p \in Paths : location = Settle(p, token, user, MaxRedirects)
    /\ sent = (IF token # "" THEN <<MeRequest(token)>> ELSE << >>)
              \o MountRequests(Render(location, token, user).arg, token)
    /\ lastOp = "mount"
    /\ err = ""

\* the useState initial values of the Submissions page
PageInit ==
    /\ pgDatasets = Obj("items" :> Arr(<< >>))
    /\ pgItems = Obj("items" :> Arr(<< >>))
    /\ pgDatasetId = << >>
    /\ pgPage = 1
    /\ pgRequests = << >>
    /\ unhandled = {}

\* the useState initial values of the upload form of the Datasets view
FormInit ==
    /\ dataFile = ""
    /\ gtFile = ""
    /\ uploads = << >>

\* the useState initial values of the Leaderboard view
BoardInit ==
    /\ srvLeaderboard = Arr(<< >>)
    /\ lbItems = Arr(<< >>)
    /\ lbDatasets = Arr(<< >>)
    /\ lbMetric = "AUC"
    /\ lbLoads = << >>

\* the useState initial values of the views, none of them mounted
ViewInit ==
    /\ PageInit
    /\ FormInit
    /\ BoardInit
    /\ srvSubmissions = Arr(<< >>)
    /\ srvDatasets = Arr(<< >>)
    /\ submissions = Arr(<< >>)
    /\ datasets = Arr(<< >>)
    /\ selectedDatasetId = << >>
    /\ subLoading = FALSE
    /\ subMsg = ""
    /\ loadAlls = << >>
    /\ page = 1
    /\ items = Arr(<< >>)
    /\ total = Num(0)
    /\ dsLoading = FALSE
    /\ dsMsg = ""
    /\ loads = << >>

Init == SessionInit /\ ViewInit

\* LoginPage onSubmit, up to the await of axios.post
SubmitLogin ==
    /\ Screen = "LoginForm"
    /\ pendingLogins < MaxPendingLogins
    /\ pendingLogins' = pendingLogins + 1
    /\ sent' = <<LoginRequest>>
    /\ lastOp' = "submitLogin"
    /\ UNCHANGED <<token, user, storage, location, pendingMe, err>>
    /\ UNCHANGED viewVars

\* login that forgets localStorage.setItem
LoginOk_NoPersist(t) ==
    /\ pendingLogins > 0
    /\ t # token => pendingMe[t] < MaxPendingMe
    /\ pendingLogins' = pendingLogins - 1
    /\ token' = t
    /\ pendingMe' = IF t # token THEN [pendingMe EXCEPT ![t] = @ + 1] ELSE pendingMe
    /\ location' = Settle(location, t, user, MaxRedirects)
    /\ sent' = (IF t # token THEN <<MeRequest(t)>> ELSE << >>)
               \o Mounted(Screen, location', t, user)
    /\ lastOp' = "loginOk"
    /\ UNCHANGED <<user, err, storage>>
    /\ UNCHANGED viewVars

\* login under an effect that runs on mount only (dependency list [] instead of [token])
LoginOk_NoEffect(t) ==
    /\ pendingLogins > 0
    /\ pendingLogins' = pendingLogins - 1
    /\ token' = t
    /\ storage' = SetItem(storage, "token", t)
    /\ location' = Settle(location, t, user, MaxRedirects)
    /\ sent' = Mounted(Screen, location', t, user)
    /\ lastOp' = "loginOk"
    /\ UNCHANGED <<user, err, pendingMe>>
    /\ UNCHANGED viewVars

\* login continues after the await: setToken, localStorage.setItem; then the
\* effect on [token] and the redirect of LoginPage
LoginOk(t) ==
    /\ pendingLogins > 0
    /\ t # token => pendingMe[t] < MaxPendingMe
    /\ pendingLogins' = pendingLogins - 1
    /\ token' = t
    /\ storage' = SetItem(storage, "token", t)
    /\ pendingMe' = IF t # token THEN [pendingMe EXCEPT ![t] = @ + 1] ELSE pendingMe
    /\ location' = Settle(location, t, user, MaxRedirects)
    /\ sent' = (IF t # token THEN <<MeRequest(t)>> ELSE << >>)
               \o Mounted(Screen, location', t, user)
    /\ lastOp' = "loginOk"
    /\ UNCHANGED <<user, err>>
    /\ UNCHANGED viewVars

\* a rejected login without the fallback to 'Login failed'
LoginFail_NoDetail(detail) ==
    /\ pendingLogins > 0
    /\ pendingLogins' = pendingLogins - 1
    /\ err' = IF Screen = "LoginForm" THEN detail ELSE err
    /\ sent' = << >>
    /\ lastOp' = "loginFail"
    /\ UNCHANGED <<token, user, storage, location, pendingMe>>
    /\ UNCHANGED viewVars

\* axios.post rejects: onSubmit's catch, setErr(detail || 'Login failed')
LoginFail(detail) ==
    /\ pendingLogins > 0
    /\ pendingLogins' = pendingLogins - 1
    /\ err' = IF Screen = "LoginForm"
              THEN (IF detail # "" THEN detail ELSE "Login failed")
              ELSE err
    /\ sent' = << >>
    /\ lastOp' = "loginFail"
    /\ UNCHANGED <<token, user, storage, location, pendingMe>>
    /\ UNCHANGED viewVars

\* logout that forgets localStorage.removeItem
Logout_KeepsStorage ==
    /\ token # ""
    /\ token' = ""
    /\ user' = NoUser
    /\ location' = Settle(location, "", NoUser, MaxRedirects)
    /\ sent' = Mounted(Screen, location', "", NoUser)
    /\ lastOp' = "logout"
    /\ err' = ""
    /\ UNCHANGED <<pendingLogins, pendingMe, storage>>
    /\ UNCHANGED viewVars

\* const logout = () => { setToken(''); setUser(null); localStorage.removeItem('token') }
Logout ==
    /\ token # ""
    /\ token' = ""
    /\ user' = NoUser
    /\ storage' = RemoveItem(storage, "token")
    /\ location' = Settle(location, "", NoUser, MaxRedirects)
    /\ sent' = Mounted(Screen, location', "", NoUser)
    /\ lastOp' = "logout"
    /\ err' = ""
    /\ UNCHANGED <<pendingLogins, pendingMe>>
    /\ UNCHANGED viewVars

\* .then(r => setUser(r.data))
MeOk(t) ==
    /\ pendingMe[t] > 0
    /\ pendingMe' = [pendingMe EXCEPT ![t] = @ - 1]
    /\ user' = ProfileOf(t)
    /\ location' = Settle(location, token, user', MaxRedirects)
    /\ sent' = Mounted(Screen, location', token, user')
    /\ lastOp' = "meOk"
    /\ UNCHANGED <<token, storage, pendingLogins, err>>
    /\ UNCHANGED viewVars

\* a catch that clears the profile only
MeFail_KeepsCredential(t) ==
    /\ pendingMe[t] > 0
    /\ pendingMe' = [pendingMe EXCEPT ![t] = @ - 1]
    /\ user' = NoUser
    /\ location' = Settle(location, token, NoUser, MaxRedirects)
    /\ sent' = Mounted(Screen, location', token, NoUser)
    /\ lastOp' = "meFail"
    /\ UNCHANGED <<token, storage, pendingLogins, err>>
    /\ UNCHANGED viewVars

\* .catch(() => { setUser(null); setToken(''); localStorage.removeItem('token'); })
MeFail(t) ==
    /\ pendingMe[t] > 0
    /\ pendingMe' = [pendingMe EXCEPT ![t] = @ - 1]
    /\ user' = NoUser
    /\ token' = ""
    /\ storage' = RemoveItem(storage, "token")
    /\ location' = Settle(location, "", NoUser, MaxRedirects)
    /\ sent' = Mounted(Screen, location', "", NoUser)
    /\ lastOp' = "meFail"
    /\ err' = IF Screen = "LoginForm" THEN err ELSE ""
    /\ UNCHANGED <<pendingLogins>>
    /\ UNCHANGED viewVars

\* a <NavLink> of the shell is followed, or the history is traversed
GoTo(path) ==
    /\ token # ""
    /\ path \in ShellRoutes
    /\ location' = Settle(path, token, user, MaxRedirects)
    /\ sent' = Mounted(Screen, location', token, user)
    /\ lastOp' = "goTo"
    /\ UNCHANGED <<token, user, storage, pendingLogins, pendingMe, err>>
    /\ UNCHANGED viewVars

\* the page is loaded again at a path: every component mounts anew
Reload(path) ==
    /\ token' = GetItemOrEmpty(storage, "token")
    /\ user' = NoUser
    /\ pendingLogins' = 0
    /\ pendingMe' = [t \in Tokens |-> IF t = token' THEN 1 ELSE 0]
    /\ location' = Settle(path, token', NoUser, MaxRedirects)
    /\ sent' = (IF token' # "" THEN <<MeRequest(token')>> ELSE << >>)
               \o MountRequests(Render(location', token', NoUser).arg, token')
    /\ lastOp' = "mount"
    /\ err' = ""
    /\ UNCHANGED storage
    /\ UNCHANGED viewVars

Next ==
    \/ SubmitLogin
    \/ \E t \in Tokens : LoginOk(t)
    \/ \E d \in LoginDetails : LoginFail(d)
    \/ Logout
    \/ \E t \in Tokens : MeOk(t)
    \/ \E t \in Tokens : MeFail(t)
    \/ \E p \in ShellRoutes : GoTo(p)
    \/ \E p \in Paths : Reload(p)

Spec == Init /\ [][Next]_vars

\* the session store when every profile fetch that was issued is answered at last
SpecLive == Init /\ [][Next]_vars /\ \A t \in Tokens : WF_vars(MeOk(t) \/ MeFail(t))

----------------------------------------------------------------------------
(* Submissions view (the loadAll variant): handlers *)

RemoveAt(seq, i) == SubSeq(seq, 1, i - 1) \o SubSeq(seq, i + 1, Len(seq))

\* fetch(`${API}/submissions?page=1&page_size=200`, { headers })
LoadAllSubmissionsRequest(headers) ==
    ViewReq("GET", "/submissions?page=1&page_size=200", headers)

\* axios.get(`${API}/datasets/`, { params: { page: 1, page_size: 50 }, headers })
LoadAllDatasetsRequest(headers) ==
    ViewReq("GET", "/datasets/?page=1&page_size=50", headers)

\* what a call of loadAll keeps from the render it was made in
LoadAllCall(headers) ==
    [stage |-> "submissions", msg |-> subMsg,
     selectedDatasetId |-> selectedDatasetId, headers |-> headers]

\* how the backend can answer the dataset request of loadAll
DatasetAnswers ==
    { [kind |-> "ok", status |-> 200, detail |-> ""],
      [kind |-> "http", status |-> 422, detail |-> "page_size too large"],
      [kind |-> "http", status |-> 500, detail |-> ""],
      [kind |-> "network", status |-> 0, detail |-> ""] }

\* loadAll is called: setLoading(true), then the submissions request
LoadAllStart ==
    /\ Screen = "Submissions"
    /\ Len(loadAlls) < MaxLoads
    /\ subLoading' = TRUE
    /\ loadAlls' = Append(loadAlls, LoadAllCall(authHeader(token)))
    /\ sent' = <<LoadAllSubmissionsRequest(authHeader(token))>>
    /\ lastOp' = "loadAll"
    /\ UNCHANGED <<submissions, datasets, selectedDatasetId, subMsg>>
    /\ UNCHANGED <<token, user, storage, location, pendingLogins, pendingMe, err>>
    /\ UNCHANGED backendVars /\ UNCHANGED datasetsVars /\ UNCHANGED pageVars
    /\ UNCHANGED formVars /\ UNCHANGED boardVars

\* the outer catch and finally of loadAll
LoadAllCatch(i, op) ==
    /\ subMsg' = "Failed to load submissions/datasets"
    /\ submissions' = Arr(<< >>)
    /\ datasets' = Arr(<< >>)
    /\ subLoading' = FALSE
    /\ loadAlls' = RemoveAt(loadAlls, i)
    /\ sent' = << >>
    /\ lastOp' = op
    /\ UNCHANGED selectedDatasetId

\* the submissions request is answered; ok is sRes.ok
LoadAllSubmissionsResponse(i, ok) ==
    /\ i \in DOMAIN loadAlls
    /\ loadAlls[i].stage = "submissions"
    /\ LET sJson == IF ok THEN srvSubmissions ELSE Arr(<< >>) IN
       IF Nullish(sJson)
       THEN LoadAllCatch(i, "loadAll:catch")
       ELSE /\ submissions' = NormalizeSubmissions(sJson)
            /\ loadAlls' = [loadAlls EXCEPT ![i].stage = "datasets"]
            /\ sent' = <<LoadAllDatasetsRequest(loadAlls[i].headers)>>
            /\ lastOp' = IF ok THEN "loadAll:submissions" ELSE "loadAll:rejected"
            /\ UNCHANGED <<datasets, selectedDatasetId, subLoading, subMsg>>
    /\ UNCHANGED <<token, user, storage, location, pendingLogins, pendingMe, err>>
    /\ UNCHANGED backendVars /\ UNCHANGED datasetsVars /\ UNCHANGED pageVars
    /\ UNCHANGED formVars /\ UNCHANGED boardVars

\* fetch rejects, or the body of the answer is not JSON
LoadAllSubmissionsFailure(i) ==
    /\ i \in DOMAIN loadAlls
    /\ loadAlls[i].stage = "submissions"
    /\ LoadAllCatch(i, "loadAll:failed")
    /\ UNCHANGED <<token, user, storage, location, pendingLogins, pendingMe, err>>
    /\ UNCHANGED backendVars /\ UNCHANGED datasetsVars /\ UNCHANGED pageVars
    /\ UNCHANGED formVars /\ UNCHANGED boardVars

\* the message of the inner catch
DatasetsErrorMessage(answer, data) ==
    IF answer.kind = "http" /\ answer.detail # "" THEN answer.detail
    ELSE IF answer.kind = "http" /\ answer.status = 422 THEN "Datasets load error: 422"
    ELSE IF answer.kind = "http" THEN "Datasets load error: 500"
    ELSE IF answer.kind = "network" THEN "Datasets load error: Network Error"
    ELSE "Datasets load error: Cannot read properties of null (reading 'items')"

\* the dataset request is answered: the rest of loadAll
LoadAllDatasetsResponse(i, answer) ==
    /\ i \in DOMAIN loadAlls
    /\ loadAlls[i].stage = "datasets"
    /\ LET call == loadAlls[i]
           caught == answer.kind # "ok" \/ Nullish(srvDatasets)
           dItems == IF caught THEN Arr(<< >>) ELSE UnwrapList(srvDatasets)
           len == LengthOf(dItems)
           select == call.selectedDatasetId = << >> /\ len.k = "number" /\ len.n > 0
           first == IF IsArray(dItems) /\ dItems.list # << >> THEN dItems.list[1] ELSE Num(0)
           noneMsg == ~Truthy(len) /\ call.msg = ""
       IN  IF select /\ Nullish(first)
           THEN LoadAllCatch(i, "loadAll:catch")
           ELSE /\ datasets' = IF IsArray(dItems) THEN dItems ELSE Arr(<< >>)
                /\ selectedDatasetId' =
                      IF select
                      THEN ToText(Coalesce(Get(first, "id"), Str(<< >>)))
                      ELSE selectedDatasetId
                /\ subMsg' = IF noneMsg
                             THEN (IF len = Num(0) THEN "No datasets available" ELSE "")
                             ELSE IF caught THEN DatasetsErrorMessage(answer, srvDatasets)
                             ELSE subMsg
                /\ subLoading' = FALSE
                /\ loadAlls' = RemoveAt(loadAlls, i)
                /\ sent' = << >>
                /\ lastOp' = IF caught THEN "loadAll:datasets:caught" ELSE "loadAll:datasets"
                /\ UNCHANGED submissions
    /\ UNCHANGED <<token, user, storage, location, pendingLogins, pendingMe, err>>
    /\ UNCHANGED backendVars /\ UNCHANGED datasetsVars /\ UNCHANGED pageVars
    /\ UNCHANGED formVars /\ UNCHANGED boardVars

----------------------------------------------------------------------------
(* Datasets view: handlers *)

\* fetch(`${API}/datasets?page=${page}&page_size=20`, { headers })
DatasetsLoadRequest(pg, headers) ==
    ViewReq("GET", "/datasets?page=" \o ToString(pg) \o "&page_size=20", headers)

\* the body the backend answers the request for a page with: srvDatasets for the
\* first page, one further dataset on every later page
DatasetsAnswer(pg) ==
    IF pg = 1 THEN srvDatasets
    ELSE Obj(("items" :> Arr(<<Obj("id" :> Num(10 + pg))>>)) @@ ("total" :> Num(20 + pg)))

\* how the backend can answer the request of load
LoadAnswers == {"ok", "401", "http", "network", "badjson"}

\* load is called: setLoading(true), then the request
DatasetsLoadStart ==
    /\ Screen = "Datasets"
    /\ Len(loads) < MaxLoads
    /\ dsLoading' = TRUE
    /\ loads' = Append(loads, [page |-> page, headers |-> authHeader(token), by |-> "effect"])
    /\ sent' = <<DatasetsLoadRequest(page, authHeader(token))>>
    /\ lastOp' = "load"
    /\ UNCHANGED <<page, items, total, dsMsg>>
    /\ UNCHANGED <<token, user, storage, location, pendingLogins, pendingMe, err>>
    /\ UNCHANGED backendVars /\ UNCHANGED submissionsVars /\ UNCHANGED pageVars
    /\ UNCHANGED formVars /\ UNCHANGED boardVars

\* const results = json.items ?? json.results ?? json.data ?? json
DatasetsResults(json) ==
    Coalesce(Coalesce(Coalesce(Get(json, "items"), Get(json, "results")),
                      Get(json, "data")), json)

\* json.total ?? json.total_items ?? json.count ?? (results ? results.length : 0)
DatasetsTotal(json, results) ==
    Coalesce(Coalesce(Coalesce(Get(json, "total"), Get(json, "total_items")),
                      Get(json, "count")),
             IF Truthy(results) THEN LengthOf(results) ELSE Num(0))

\* load treating a 401 as the end of the session
DatasetsLoadResponse_LogoutOn401(i, answer) ==
    /\ i \in DOMAIN loads
    /\ answer = "401"
    /\ dsMsg' = "Unauthorized - please login"
    /\ items' = Arr(<< >>)
    /\ total' = Num(0)
    /\ lastOp' = "load:401"
    /\ dsLoading' = FALSE
    /\ loads' = RemoveAt(loads, i)
    /\ sent' = << >>
    /\ token' = ""
    /\ user' = NoUser
    /\ storage' = RemoveItem(storage, "token")
    /\ UNCHANGED page
    /\ UNCHANGED <<location, pendingLogins, pendingMe, err>>
    /\ UNCHANGED backendVars /\ UNCHANGED submissionsVars /\ UNCHANGED pageVars
    /\ UNCHANGED formVars /\ UNCHANGED boardVars

\* the request of load is answered: the rest of load
DatasetsLoadResponse(i, answer) ==
    /\ i \in DOMAIN loads
    /\ IF answer = "401"
       THEN \* the source's message has an em dash where this text has a hyphen
            /\ dsMsg' = "Unauthorized - please login"
            /\ items' = Arr(<< >>)
            /\ total' = Num(0)
            /\ lastOp' = "load:401"
       ELSE IF answer # "ok" \/ Nullish(DatasetsAnswer(loads[i].page))
       THEN /\ dsMsg' = "Failed to load datasets"
            /\ items' = Arr(<< >>)
            /\ total' = Num(0)
            /\ lastOp' = "load:catch"
       ELSE LET json == DatasetsAnswer(loads[i].page)
                results == DatasetsResults(json)
            IN
            /\ items' = OrElse(results, Arr(<< >>))
            /\ total' = DatasetsTotal(json, results)
            /\ dsMsg' = ""
            /\ lastOp' = "load:ok"
    /\ dsLoading' = FALSE
    /\ loads' = RemoveAt(loads, i)
    /\ sent' = << >>
    /\ UNCHANGED page
    /\ UNCHANGED <<token, user, storage, location, pendingLogins, pendingMe, err>>
    /\ UNCHANGED backendVars /\ UNCHANGED submissionsVars /\ UNCHANGED pageVars
    /\ UNCHANGED formVars /\ UNCHANGED boardVars

----------------------------------------------------------------------------
(* Payloads the backend can answer the list requests with *)

\* the subsets of S with at most n elements
RECURSIVE Subsets(_, _)
Subsets(S, n) ==
    IF n = 0 THEN {{}}
    ELSE LET smaller == Subsets(S, n - 1) IN
         smaller \cup {T \cup {x} : T \in smaller, x \in S}

\* list entries that carry nothing the normalizer rewrites
SimpleRecords == {Obj("id" :> Num(1)), Obj("id" :> Num(2))}

SimpleLists == {Arr(l) : l \in UNION {[1..n -> SimpleRecords] : n \in 0..MaxLen}}

\* a list bare, under items (with or without total), under results or under data
WrappedLists(list) ==
    {list, Obj("items" :> list), Obj("results" :> list), Obj("data" :> list),
     Obj(("items" :> list) @@ ("total" :> LengthOf(list)))}

\* bodies that hold no list where the views look for one
OtherPayloads ==
    {Null, EmptyObj, Obj("total" :> Num(0)), Obj("items" :> Num(1)),
     Obj(("items" :> Null) @@ ("total" :> Num(0))),
     Obj(("items" :> Null) @@ ("results" :> Arr(<<Obj("id" :> Num(1))>>)))}

ListPayloads == (UNION {WrappedLists(l) : l \in SimpleLists}) \cup OtherPayloads

\* where a submission record can hold the value of a metric key: as its own field,
\* in score_json (direct or under results), in metrics (direct or under results)
Places == {"top", "sjd", "sjr", "md", "mr"}

\* the value held at a place
PlaceValue(p) ==
    CASE p = "top" -> 0
      [] p = "sjd" -> 1
      [] p = "sjr" -> 2
      [] p = "md" -> 3
      [] OTHER -> 4

KeysAt(E, p) == {e[2] : e \in {x \in E : x[1] = p}}

\* a metrics blob with direct keys and, when there are any, keys under results
Blob(direct, nested) ==
    LET res == Obj(nested)
        keys == (DOMAIN direct) \cup (IF DOMAIN nested = {} THEN {} ELSE {"results"})
    IN  Obj([x \in keys |-> IF x = "results" THEN res ELSE direct[x]])

\* the encodings of a blob in a field of a record
SourceForms == {"absent", "null", "empty", "bad", "object", "string"}

SourceValue(form, blob) ==
    CASE form = "object" -> blob
      [] form = "string" -> Str(Encode(blob))
      [] form = "bad" -> Str(SubSeq(Encode(blob), 1, Len(Encode(blob)) - 1))
      [] form = "empty" -> Str(<< >>)
      [] OTHER -> Null

\* the record holding PlaceValue(p) for every <<p, key>> of E
SubmissionRecord(E, sjForm, mForm) ==
    LET at(p) == [x \in KeysAt(E, p) |-> Num(PlaceValue(p))]
        keys == {"id"} \cup KeysAt(E, "top")
                  \cup (IF sjForm = "absent" THEN {} ELSE {"score_json"})
                  \cup (IF mForm = "absent" THEN {} ELSE {"metrics"})
    IN  Obj([x \in keys |->
              CASE x = "id" -> Num(1)
                [] x = "score_json" -> SourceValue(sjForm, Blob(at("sjd"), at("sjr")))
                [] x = "metrics" -> SourceValue(mForm, Blob(at("md"), at("mr")))
                [] OTHER -> Num(PlaceValue("top"))])

\* a field holds values only as an object or as the text of one
FitsForm(E, form, ps) ==
    form \in {"object", "string"} \/ \A e \in E : e[1] \notin ps

SubmissionRecords ==
    {SubmissionRecord(sh[1], sh[2], sh[3]) :
       sh \in {x \in Subsets((Places \X MetricKeySet) \cup {<<"top", "score">>}, MaxEntries)
                        \X SourceForms \X SourceForms :
                 /\ FitsForm(x[1], x[2], {"sjd", "sjr"})
                 /\ FitsForm(x[1], x[3], {"md", "mr"})}}

\* metric values by key
ValueSets == UNION {[K -> 0..MaxNum] : K \in Subsets(MetricKeySet, MaxKeys)}

\* the blob carrying V directly or under results
Nest(V, nesting) ==
    LET direct == [x \in DOMAIN V |-> Num(V[x])] IN
    IF nesting = "results" THEN Obj("results" :> Obj(direct)) ELSE Obj(direct)

\* how a field carries a value set: not at all, or in a form and a nesting
Carriages == {<<"absent", "direct">>} \cup ({"object", "string"} \X {"direct", "results"})

\* the record carrying V in score_json as sjc says and in metrics as mc says
Carrier(V, sjc, mc) ==
    LET keys == {"id"} \cup (IF sjc[1] = "absent" THEN {} ELSE {"score_json"})
                  \cup (IF mc[1] = "absent" THEN {} ELSE {"metrics"})
    IN  Obj([x \in keys |->
              CASE x = "id" -> Num(1)
                [] x = "score_json" -> SourceValue(sjc[1], Nest(V, sjc[2]))
                [] OTHER -> SourceValue(mc[1], Nest(V, mc[2]))])

\* two records of one answer that carry the same value set
CarrierPairs ==
    {Arr(<<Carrier(c[1], <<"string", "direct">>, <<"absent", "direct">>),
           Carrier(c[1], c[2], c[3])>>) :
       c \in {x \in ValueSets \X Carriages \X Carriages :
                x[2][1] # "absent" \/ x[3][1] # "absent"}}

\* records whose metrics text decodes to something that is not an object: to null,
\* or to the text of a blob (a blob encoded twice)
DecodedRecords ==
    UNION {{Obj("id" :> Num(1) @@ "metrics" :> Str(Encode(Str(Encode(Nest(V, "direct")))))),
            Obj("id" :> Num(1) @@ "score_json" :> Str(Encode(Str(Encode(Nest(V, "direct")))))),
            Obj("id" :> Num(1) @@ "score_json" :> Nest(V, "direct") @@ "metrics" :> Str(Encode(Null))),
            Obj("id" :> Num(1) @@ "score_json" :> Str(Encode(Null)) @@ "metrics" :> Nest(V, "results"))} :
           V \in ValueSets}

\* the fields of a record that the later rules read: a creation time and a path
WithRest(rec) ==
    Obj(rec.f @@ ("created_at" :> Str(<<Word("2025-01-01")>>))
              @@ ("file_path" :> Str(<<Word("uploads"), Punct("/"), Word("a.csv")>>)))

\* records with a score_json or a metrics text that is not JSON
UnparsableRecords ==
    {WithRest(SubmissionRecord(sh[1], sh[2], sh[3])) :
       sh \in {x \in Subsets(Places \X {"f1", "auc"}, 1) \X SourceForms \X SourceForms :
                 /\ "bad" \in {x[2], x[3]}
                 /\ FitsForm(x[1], x[2], {"sjd", "sjr"})
                 /\ FitsForm(x[1], x[3], {"md", "mr"})}}

\* the fields the filename rule reads, and values they can hold: nothing, a bare
\* name, paths with either separator or both, a path that ends in a separator,
\* and a number
FileFields == {"filename", "file_name", "file_path", "path", "storage_path"}

PathValues ==
    {Str(<< >>),
     Str(<<Word("a.csv")>>),
     Str(<<Word("uploads"), Punct("/"), Word("b.csv")>>),
     Str(<<Word("x"), Punct("\\"), Word("y"), Punct("/"), Word("z"), Punct("\\"), Word("c.csv")>>),
     Str(<<Word("dir"), Punct("/")>>),
     Num(0),
     Num(7)}

\* records that hold some of these fields
FilenameRecords ==
    {Obj(("id" :> Num(1)) @@ f) :
       f \in UNION {[K -> PathValues] : K \in Subsets(FileFields, MaxFields)}}

SubmissionPayloads ==
    {Arr(<<r>>) : r \in SubmissionRecords \cup DecodedRecords \cup UnparsableRecords
                         \cup FilenameRecords}
       \cup CarrierPairs

----------------------------------------------------------------------------
(* Datasets view: statistics of a dataset *)

\* getStats: stats from different shapes (object or JSON string)
GetStats(d) ==
    LET sj == Get(d, "stats_json")
        st == Get(d, "stats")
        raw == Get(d, "stats_raw")
        fromStats == IF Truthy(st) /\ TypeOf(st) = "string" THEN JSONParse(st.text) ELSE ParseFail
        fromRaw == IF Truthy(raw) /\ TypeOf(raw) = "string" THEN JSONParse(raw.text) ELSE ParseFail
    IN  IF ~Truthy(d) THEN Null
        ELSE IF Truthy(sj) /\ TypeOf(sj) = "object" THEN sj
        ELSE IF Truthy(st) /\ TypeOf(st) = "object" THEN st
        ELSE IF fromStats.ok THEN fromStats.val
        ELSE IF fromRaw.ok THEN fromRaw.val
        ELSE Null

\* {stats && (...)}: the statistics grid of a dataset card
StatsShown(d) == Truthy(GetStats(d))

\* stats.total_rows ?? stats.total_samples ?? stats.total ?? 0
TotalCell(d) ==
    LET stats == GetStats(d) IN
    Coalesce(Coalesce(Coalesce(Get(stats, "total_rows"), Get(stats, "total_samples")),
                      Get(stats, "total")), Num(0))

\* datasets with statistics, under each of the fields and in each of the forms
StatsRecords ==
    {Obj("id" :> Num(1) @@ field :> SourceValue(form, Obj(key :> Num(10)))) :
       field \in {"stats_json", "stats", "stats_raw"},
       form \in {"object", "string", "bad"},
       key \in {"total_rows", "total"}}

StatsPayloads == {Arr(<<r>>) : r \in StatsRecords}

----------------------------------------------------------------------------
(* The Submissions view mounted in a session, its first loadAll in flight *)

\* a session in which the profile of the held credential has arrived
LoggedIn(path) ==
    /\ token = "abc"
    /\ storage = {<<"token", "abc">>}
    /\ user = ProfileOf("abc")
    /\ pendingLogins = 0
    /\ pendingMe = [t \in Tokens |-> 0]
    /\ location = path
    /\ lastOp = "mount"
    /\ err = ""

\* useEffect(() => { loadAll() }, []) of the Submissions view
SubmissionsMounted ==
    /\ LoggedIn("/submissions")
    /\ submissions = Arr(<< >>)
    /\ datasets = Arr(<< >>)
    /\ selectedDatasetId = << >>
    /\ subLoading = TRUE
    /\ subMsg = ""
    /\ loadAlls = <<[stage |-> "submissions", msg |-> "", selectedDatasetId |-> << >>,
                     headers |-> authHeader("abc")]>>
    /\ sent = <<LoadAllSubmissionsRequest(authHeader("abc"))>>
    /\ page = 1 /\ items = Arr(<< >>) /\ total = Num(0)
    /\ dsLoading = FALSE /\ dsMsg = "" /\ loads = << >>
    /\ PageInit
    /\ FormInit
    /\ BoardInit

\* useEffect(() => { load() }, [page]) of the Datasets view
DatasetsMounted ==
    /\ LoggedIn("/datasets")
    /\ page = 1
    /\ items = Arr(<< >>)
    /\ total = Num(0)
    /\ dsLoading = TRUE
    /\ dsMsg = ""
    /\ loads = <<[page |-> 1, headers |-> authHeader("abc"), by |-> "effect"]>>
    /\ sent = <<DatasetsLoadRequest(1, authHeader("abc"))>>
    /\ submissions = Arr(<< >>) /\ datasets = Arr(<< >>) /\ selectedDatasetId = << >>
    /\ subLoading = FALSE /\ subMsg = "" /\ loadAlls = << >>
    /\ PageInit
    /\ FormInit
    /\ BoardInit

InitNorm ==
    /\ SubmissionsMounted
    /\ srvSubmissions \in SubmissionPayloads
    /\ srvDatasets = Arr(<<Obj("id" :> Num(1))>>)

\* one pass of loadAll
NextNorm ==
    \/ \E i \in 1..MaxLoads, ok \in BOOLEAN : LoadAllSubmissionsResponse(i, ok)
    \/ \E i \in 1..MaxLoads : LoadAllSubmissionsFailure(i)
    \/ \E i \in 1..MaxLoads, answer \in DatasetAnswers : LoadAllDatasetsResponse(i, answer)

SpecNorm == InitNorm /\ [][NextNorm]_vars

InitViews ==
    \/ /\ SubmissionsMounted
       /\ \/ srvSubmissions \in ListPayloads /\ srvDatasets \in {Arr(<< >>), Arr(<<Obj("id" :> Num(1))>>)}
          \/ srvSubmissions = Arr(<<Obj("id" :> Num(1))>>) /\ srvDatasets \in ListPayloads
    \/ /\ DatasetsMounted
       /\ srvSubmissions = Arr(<< >>)
       /\ srvDatasets \in ListPayloads \cup StatsPayloads

\* the two views, each reloading after the actions of its page
NextViews ==
    \/ LoadAllStart
    \/ \E i \in 1..MaxLoads, ok \in BOOLEAN : LoadAllSubmissionsResponse(i, ok)
    \/ \E i \in 1..MaxLoads : LoadAllSubmissionsFailure(i)
    \/ \E i \in 1..MaxLoads, answer \in DatasetAnswers : LoadAllDatasetsResponse(i, answer)
    \/ DatasetsLoadStart
    \/ \E i \in 1..MaxLoads, answer \in LoadAnswers : DatasetsLoadResponse(i, answer)

SpecViews == InitViews /\ [][NextViews]_vars

----------------------------------------------------------------------------
(* Submissions page (pages/Submissions.jsx): handlers *)

\* the text as it appears in a URL
UrlText(text) ==
    IF text = << >> THEN ""
    ELSE IF text[1].t = "numeral" THEN ToString(text[1].n)
    ELSE text[1].w

\* `${API}/submissions/?page=${page}&page_size=20${datasetId ? `&dataset_id=${datasetId}` : ''}`
PageSubmissionsPath(pg, dsId) ==
    "/submissions/?page=" \o ToString(pg) \o "&page_size=20"
       \o (IF dsId # << >> THEN "&dataset_id=" \o UrlText(dsId) ELSE "")

\* load: the two requests, the second one with the page and dataset of the render
PageLoadRequests(pg, dsId) ==
    << [kind |-> "datasets", page |-> pg, datasetId |-> dsId],
       [kind |-> "submissions", page |-> pg, datasetId |-> dsId] >>

PageLoadSent(pg, dsId, tok) ==
    << ViewReq("GET", "/datasets/", NoHeaders),
       ViewReq("GET", PageSubmissionsPath(pg, dsId), authHeader(tok)) >>

\* r.data.items.find(x => x.is_official)
FindOfficial(list) ==
    IF \E i \in DOMAIN list : Truthy(Get(list[i], "is_official"))
    THEN list[CHOOSE i \in DOMAIN list :
                /\ Truthy(Get(list[i], "is_official"))
                /\ \A j \in DOMAIN list : Truthy(Get(list[j], "is_official")) => i <= j]
    ELSE Undefined

\* the body the backend answers the submissions request with: the submissions of
\* the dataset asked for, all of them when none is asked for
PageSubmissionsAnswer(dsId) ==
    Obj("items" :> Arr(SelectSeq(srvSubmissions.list,
                                 LAMBDA s : dsId = << >> \/ ToText(Get(s, "dataset_id")) = dsId)))

\* the dataset request is answered: the then callback, and the effect on
\* [page, datasetId] when it changes datasetId
PageDatasetsResponse(i, ok) ==
    /\ i \in DOMAIN pgRequests
    /\ pgRequests[i].kind = "datasets"
    /\ LET rest == RemoveAt(pgRequests, i)
           list == IF Nullish(srvDatasets) THEN Undefined ELSE Get(srvDatasets, "items")
           off == IF IsArray(list) THEN FindOfficial(list.list) ELSE Undefined
           newId == ToText(Get(off, "id"))
       IN  IF ~ok
           THEN /\ unhandled' = unhandled \cup {"datasets"}
                /\ pgRequests' = rest
                /\ sent' = << >>
                /\ lastOp' = "page:datasets:rejected"
                /\ UNCHANGED <<pgDatasets, pgDatasetId>>
           ELSE IF ~IsArray(list)
           THEN /\ pgDatasets' = srvDatasets
                /\ unhandled' = unhandled \cup {"datasets"}
                /\ pgRequests' = rest
                /\ sent' = << >>
                /\ lastOp' = "page:datasets:throw"
                /\ UNCHANGED pgDatasetId
           ELSE IF Truthy(off) /\ newId # pgDatasetId
           THEN /\ pgDatasets' = srvDatasets
                /\ pgDatasetId' = newId
                /\ pgRequests' = rest \o PageLoadRequests(pgPage, newId)
                /\ sent' = PageLoadSent(pgPage, newId, token)
                /\ lastOp' = "page:datasets"
                /\ UNCHANGED unhandled
           ELSE /\ pgDatasets' = srvDatasets
                /\ pgRequests' = rest
                /\ sent' = << >>
                /\ lastOp' = "page:datasets"
                /\ UNCHANGED <<pgDatasetId, unhandled>>
    /\ UNCHANGED <<pgItems, pgPage>>
    /\ UNCHANGED <<token, user, storage, location, pendingLogins, pendingMe, err>>
    /\ UNCHANGED backendVars /\ UNCHANGED submissionsVars /\ UNCHANGED datasetsVars
    /\ UNCHANGED formVars /\ UNCHANGED boardVars

\* the submissions request is answered: .then(r => setItems(r.data))
PageSubmissionsResponse(i, ok) ==
    /\ i \in DOMAIN pgRequests
    /\ pgRequests[i].kind = "submissions"
    /\ IF ok
       THEN /\ pgItems' = PageSubmissionsAnswer(pgRequests[i].datasetId)
            /\ lastOp' = "page:submissions"
            /\ UNCHANGED unhandled
       ELSE /\ unhandled' = unhandled \cup {"submissions"}
            /\ lastOp' = "page:submissions:rejected"
            /\ UNCHANGED pgItems
    /\ pgRequests' = RemoveAt(pgRequests, i)
    /\ sent' = << >>
    /\ UNCHANGED <<pgDatasets, pgDatasetId, pgPage>>
    /\ UNCHANGED <<token, user, storage, location, pendingLogins, pendingMe, err>>
    /\ UNCHANGED backendVars /\ UNCHANGED submissionsVars /\ UNCHANGED datasetsVars
    /\ UNCHANGED formVars /\ UNCHANGED boardVars

(* Rendering of metric values *)

\* a number with a fractional part, counted in hundredths
Dec(h) == [k |-> "number", n |-> h, per |-> 100]

\* the text of a number with d digits after the point
Fixed(v, d) == [t |-> "fixed", v |-> v, d |-> d]

\* the placeholder shown for a value that is not there
Dash == <<Word("-")>>

\* v?.toFixed?.(4) ?? '-'
ToFixedOrDash(v) ==
    IF v.k = "number" THEN <<Fixed(v, 4)>> ELSE Dash

\* {s.evaluated && s.score_json && (...)}: the metrics row of the Submissions page
PageMetricsShown(s) == Truthy(Get(s, "evaluated")) /\ Truthy(Get(s, "score_json"))

\* s.score_json.AUC?.toFixed?.(4) ?? '-'
PageCell(s, key) == ToFixedOrDash(Get(Get(s, "score_json"), key))

\* s.auc !== undefined ? Number(s.auc).toFixed(3) : "-" of the Submissions view
MetricCell(s, key) ==
    LET v == Get(s, key) IN
    IF v = Undefined THEN Dash
    ELSE IF v.k = "number" THEN <<Fixed(v, 3)>>
    ELSE IF v.k = "null" THEN <<Fixed(Num(0), 3)>>
    ELSE <<Word("NaN")>>

(* The Submissions page mounted in a session *)

\* datasets the backend lists for the page
PageDatasets ==
    {Obj("id" :> Num(n) @@ "is_official" :> Bool(b)) : n \in {1}, b \in BOOLEAN}
       \cup {Obj("id" :> Num(2) @@ "is_official" :> Bool(TRUE))}

PageDatasetBodies ==
    {Obj("items" :> Arr(l)) : l \in UNION {[1..n -> PageDatasets] : n \in 0..MaxLen}}
       \cup {Arr(<<Obj("id" :> Num(1) @@ "is_official" :> Bool(TRUE))>>)}

\* submissions the backend holds: evaluated with upper-case score keys, or not yet
PageSubmissions ==
    {Obj("id" :> Num(1) @@ "dataset_id" :> Num(1) @@ "evaluated" :> Bool(TRUE)
           @@ "score_json" :> Obj("AUC" :> Dec(91))),
     Obj("id" :> Num(2) @@ "dataset_id" :> Num(2) @@ "evaluated" :> Bool(TRUE)
           @@ "score_json" :> Obj("AUC" :> Dec(91) @@ "Accuracy" :> Dec(80))),
     Obj("id" :> Num(3) @@ "dataset_id" :> Num(1) @@ "evaluated" :> Bool(FALSE)
           @@ "score_json" :> Null)}

\* useEffect(() => { load() }, [page, datasetId]) on mount
InitPage ==
    /\ LoggedIn("/submissions")
    /\ srvDatasets \in PageDatasetBodies
    /\ srvSubmissions \in {Arr(l) : l \in UNION {[1..n -> PageSubmissions] : n \in 0..MaxLen}}
    /\ pgDatasets = Obj("items" :> Arr(<< >>))
    /\ pgItems = Obj("items" :> Arr(<< >>))
    /\ pgDatasetId = << >>
    /\ pgPage = 1
    /\ pgRequests = PageLoadRequests(1, << >>)
    /\ unhandled = {}
    /\ sent = SubmissionsMount("abc")
    /\ submissions = Arr(<< >>) /\ datasets = Arr(<< >>) /\ selectedDatasetId = << >>
    /\ subLoading = FALSE /\ subMsg = "" /\ loadAlls = << >>
    /\ page = 1 /\ items = Arr(<< >>) /\ total = Num(0)
    /\ dsLoading = FALSE /\ dsMsg = "" /\ loads = << >>
    /\ FormInit
    /\ BoardInit

NextPage ==
    \/ \E i \in DOMAIN pgRequests, ok \in BOOLEAN : PageDatasetsResponse(i, ok)
    \/ \E i \in DOMAIN pgRequests, ok \in BOOLEAN : PageSubmissionsResponse(i, ok)

SpecPage == InitPage /\ [][NextPage]_vars

----------------------------------------------------------------------------
(* Datasets view: the upload form *)

\* the files the two file inputs can hand to their onChange ("" when files[0]
\* is undefined)
GtFiles == {"", "gt.csv"}
DataFiles == {"", "data.zip"}

\* onChange={(e) => setGtFile(e.target.files[0])}
SelectGtFile(f) ==
    /\ Screen = "Datasets"
    /\ user.role = "admin"
    /\ gtFile' = f
    /\ lastOp' = "setGtFile"
    /\ sent' = << >>
    /\ UNCHANGED <<dataFile, uploads>>
    /\ UNCHANGED <<token, user, storage, location, pendingLogins, pendingMe, err>>
    /\ UNCHANGED backendVars /\ UNCHANGED submissionsVars /\ UNCHANGED datasetsVars
    /\ UNCHANGED pageVars /\ UNCHANGED boardVars

\* onChange={(e) => setDataFile(e.target.files[0])}
SelectDataFile(f) ==
    /\ Screen = "Datasets"
    /\ user.role = "admin"
    /\ dataFile' = f
    /\ lastOp' = "setDataFile"
    /\ sent' = << >>
    /\ UNCHANGED <<gtFile, uploads>>
    /\ UNCHANGED <<token, user, storage, location, pendingLogins, pendingMe, err>>
    /\ UNCHANGED backendVars /\ UNCHANGED submissionsVars /\ UNCHANGED datasetsVars
    /\ UNCHANGED pageVars /\ UNCHANGED boardVars

\* the FormData of upload, name and description at their initial values: data_file
\* is appended only when a data file is chosen
UploadForm(data, gt) ==
    IF data # ""
    THEN <<<<"name", "LUNA25 Test">>, <<"description", "">>, <<"data_file", data>>,
           <<"groundtruth_csv", gt>>>>
    ELSE <<<<"name", "LUNA25 Test">>, <<"description", "">>, <<"groundtruth_csv", gt>>>>

\* axios.post(`${API}/datasets/`, fd, { headers })
UploadRequest(headers) == ViewReq("POST", "/datasets/", headers)

\* upload without its precondition check
UploadSubmit_NoCheck ==
    /\ Screen = "Datasets"
    /\ user.role = "admin"
    /\ Len(uploads) < MaxUploads
    /\ uploads' = Append(uploads, [form |-> UploadForm(dataFile, gtFile),
                                   page |-> page,
                                   headers |-> authHeader(token)])
    /\ sent' = <<UploadRequest(authHeader(token))>>
    /\ lastOp' = "upload"
    /\ UNCHANGED dsMsg
    /\ UNCHANGED <<dataFile, gtFile>>
    /\ UNCHANGED <<page, items, total, dsLoading, loads>>
    /\ UNCHANGED <<token, user, storage, location, pendingLogins, pendingMe, err>>
    /\ UNCHANGED backendVars /\ UNCHANGED submissionsVars
    /\ UNCHANGED pageVars /\ UNCHANGED boardVars

\* the form is submitted: upload up to its await
UploadSubmit ==
    /\ Screen = "Datasets"
    /\ user.role = "admin"
    /\ IF gtFile = ""
       THEN /\ dsMsg' = "Ground truth CSV required"
            /\ sent' = << >>
            /\ lastOp' = "upload:required"
            /\ UNCHANGED uploads
       ELSE /\ Len(uploads) < MaxUploads
            /\ uploads' = Append(uploads, [form |-> UploadForm(dataFile, gtFile),
                                           page |-> page,
                                           headers |-> authHeader(token)])
            /\ sent' = <<UploadRequest(authHeader(token))>>
            /\ lastOp' = "upload"
            /\ UNCHANGED dsMsg
    /\ UNCHANGED <<dataFile, gtFile>>
    /\ UNCHANGED <<page, items, total, dsLoading, loads>>
    /\ UNCHANGED <<token, user, storage, location, pendingLogins, pendingMe, err>>
    /\ UNCHANGED backendVars /\ UNCHANGED submissionsVars
    /\ UNCHANGED pageVars /\ UNCHANGED boardVars

\* how the backend can answer the request of upload
UploadAnswers == {"ok", "detail", "failed"}

\* ex.response?.data?.detail || "Upload failed"
UploadErrMsg(answer) == IF answer = "detail" THEN "groundtruth_csv is not a CSV" ELSE "Upload failed"

\* the request of upload is answered: the rest of upload, the call of load included
UploadResponse(i, answer) ==
    /\ i \in DOMAIN uploads
    /\ uploads' = RemoveAt(uploads, i)
    /\ IF answer = "ok"
       THEN /\ Len(loads) <= MaxLoads
            /\ dsMsg' = "Uploaded"
            /\ dataFile' = ""
            /\ gtFile' = ""
            /\ dsLoading' = TRUE
            /\ loads' = Append(loads, [page |-> uploads[i].page, headers |-> uploads[i].headers,
                                       by |-> "upload"])
            /\ sent' = <<DatasetsLoadRequest(uploads[i].page, uploads[i].headers)>>
            /\ lastOp' = "upload:ok"
       ELSE /\ dsMsg' = UploadErrMsg(answer)
            /\ sent' = << >>
            /\ lastOp' = "upload:catch"
            /\ UNCHANGED <<dataFile, gtFile, dsLoading, loads>>
    /\ UNCHANGED <<page, items, total>>
    /\ UNCHANGED <<token, user, storage, location, pendingLogins, pendingMe, err>>
    /\ UNCHANGED backendVars /\ UNCHANGED submissionsVars
    /\ UNCHANGED pageVars /\ UNCHANGED boardVars

\* the Datasets view of an administrator, its first load in flight
InitUpload ==
    /\ DatasetsMounted
    /\ srvSubmissions = Arr(<< >>)
    /\ srvDatasets \in {Arr(<< >>), Arr(<<Obj("id" :> Num(1))>>)}

NextUpload ==
    \/ \E f \in GtFiles : SelectGtFile(f)
    \/ \E f \in DataFiles : SelectDataFile(f)
    \/ UploadSubmit
    \/ \E i \in DOMAIN uploads, answer \in UploadAnswers : UploadResponse(i, answer)
    \/ \E i \in DOMAIN loads, answer \in LoadAnswers : DatasetsLoadResponse(i, answer)

SpecUpload == InitUpload /\ [][NextUpload]_vars

----------------------------------------------------------------------------
(* Leaderboard view (pages/Leaderboard.jsx): handlers.  selectedDatasetId  *)
(* stays at its initial value '', so no dataset_id parameter is appended.  *)

\* the options of the metric select
Metrics == {"AUC", "F1"}

\* the list of an answer without the fallback to the empty list
BoardList_NoFallback(data) ==
    IF IsArray(data) THEN data ELSE Get(data, "items")

\* Array.isArray(data) ? data : (data && data.items) ? data.items : []
BoardList(data) ==
    IF IsArray(data) THEN data
    ELSE IF Truthy(data) /\ Truthy(Get(data, "items")) THEN Get(data, "items")
    ELSE Arr(<< >>)

\* axios.get(`${API}/leaderboard/?${params.toString()}`, opts)
BoardRequest(metric, headers) ==
    ViewReq("GET", "/leaderboard/?metric=" \o metric, headers)

\* load is called: the datasets request
BoardLoadCall(metric, headers) ==
    [stage |-> "datasets", metric |-> metric, headers |-> headers]

\* onChange={e=>setMetric(e.target.value)} and the effect on [metric, selectedDatasetId]
SetMetric(m) ==
    /\ Screen = "Leaderboard"
    /\ m # lbMetric
    /\ Len(lbLoads) < MaxLoads
    /\ lbMetric' = m
    /\ lbLoads' = Append(lbLoads, BoardLoadCall(m, authHeader(token)))
    /\ sent' = LeaderboardMount(token)
    /\ lastOp' = "board:setMetric"
    /\ UNCHANGED <<lbItems, lbDatasets>>
    /\ UNCHANGED <<token, user, storage, location, pendingLogins, pendingMe, err>>
    /\ UNCHANGED backendVars /\ UNCHANGED submissionsVars /\ UNCHANGED datasetsVars
    /\ UNCHANGED pageVars /\ UNCHANGED formVars

\* catch (err): setDatasets([]); setItems([])
BoardCatch(i) ==
    /\ lbDatasets' = Arr(<< >>)
    /\ lbItems' = Arr(<< >>)
    /\ lbLoads' = RemoveAt(lbLoads, i)
    /\ sent' = << >>
    /\ lastOp' = "board:catch"

\* the datasets request of load is answered
BoardDatasetsResponse(i, ok) ==
    /\ i \in DOMAIN lbLoads
    /\ lbLoads[i].stage = "datasets"
    /\ IF ok
       THEN /\ lbDatasets' = BoardList(srvDatasets)
            /\ lbLoads' = [lbLoads EXCEPT ![i].stage = "leaderboard"]
            /\ sent' = <<BoardRequest(lbLoads[i].metric, lbLoads[i].headers)>>
            /\ lastOp' = "board:datasets"
            /\ UNCHANGED lbItems
       ELSE BoardCatch(i)
    /\ UNCHANGED lbMetric
    /\ UNCHANGED <<token, user, storage, location, pendingLogins, pendingMe, err>>
    /\ UNCHANGED backendVars /\ UNCHANGED submissionsVars /\ UNCHANGED datasetsVars
    /\ UNCHANGED pageVars /\ UNCHANGED formVars

\* the leaderboard request of load is answered
BoardLeaderboardResponse(i, ok) ==
    /\ i \in DOMAIN lbLoads
    /\ lbLoads[i].stage = "leaderboard"
    /\ IF ok
       THEN /\ lbItems' = BoardList(srvLeaderboard)
            /\ lbLoads' = RemoveAt(lbLoads, i)
            /\ sent' = << >>
            /\ lastOp' = "board:leaderboard"
            /\ UNCHANGED lbDatasets
       ELSE BoardCatch(i)
    /\ UNCHANGED lbMetric
    /\ UNCHANGED <<token, user, storage, location, pendingLogins, pendingMe, err>>
    /\ UNCHANGED backendVars /\ UNCHANGED submissionsVars /\ UNCHANGED datasetsVars
    /\ UNCHANGED pageVars /\ UNCHANGED formVars

\* useEffect(()=>{ load() }, [metric, selectedDatasetId]) of the Leaderboard view
BoardMounted ==
    /\ LoggedIn("/leaderboard")
    /\ lbItems = Arr(<< >>)
    /\ lbDatasets = Arr(<< >>)
    /\ lbMetric = "AUC"
    /\ lbLoads = <<BoardLoadCall("AUC", authHeader("abc"))>>
    /\ sent = LeaderboardMount("abc")
    /\ submissions = Arr(<< >>) /\ datasets = Arr(<< >>) /\ selectedDatasetId = << >>
    /\ subLoading = FALSE /\ subMsg = "" /\ loadAlls = << >>
    /\ page = 1 /\ items = Arr(<< >>) /\ total = Num(0)
    /\ dsLoading = FALSE /\ dsMsg = "" /\ loads = << >>
    /\ PageInit
    /\ FormInit

----------------------------------------------------------------------------
(* The list region of the three list views *)

\* Datasets.jsx: loading ? ... : items.length === 0 ? ... : items.map(...)
DatasetsRegion ==
    IF dsLoading THEN "Loading datasets..."
    ELSE IF LengthOf(items) = Num(0) THEN "No datasets found. Upload a dataset to get started."
    ELSE IF IsArray(items) THEN "cards"
    ELSE "TypeError"

\* Submissions (part_000): loading ? ... : submissions.length === 0 ? ... : cards
SubmissionsRegion ==
    IF subLoading THEN "Loading submissions..."
    ELSE IF LengthOf(submissions) = Num(0) THEN "No submissions found."
    ELSE IF IsArray(submissions) THEN "cards"
    ELSE "TypeError"

\* Leaderboard.jsx: items.map(...) rows, then the row for items.length===0
BoardRegion ==
    IF ~IsArray(lbItems) THEN "TypeError"
    ELSE IF Len(lbItems.list) = 0 THEN "No submissions found for the selected dataset/metric."
    ELSE "rows"

\* the three list views, each with its first load in flight
InitLists ==
    \/ /\ SubmissionsMounted
       /\ srvSubmissions \in ListPayloads
       /\ srvDatasets \in {Arr(<< >>), Arr(<<Obj("id" :> Num(1))>>)}
       /\ srvLeaderboard = Arr(<< >>)
    \/ /\ DatasetsMounted
       /\ srvSubmissions = Arr(<< >>)
       /\ srvDatasets \in ListPayloads
       /\ srvLeaderboard = Arr(<< >>)
    \/ /\ BoardMounted
       /\ srvSubmissions = Arr(<< >>)
       /\ srvDatasets \in {Arr(<< >>), Obj("items" :> Arr(<<Obj("id" :> Num(1))>>))}
       /\ srvLeaderboard \in ListPayloads

NextLists ==
    \/ LoadAllStart
    \/ \E i \in 1..MaxLoads, ok \in BOOLEAN : LoadAllSubmissionsResponse(i, ok)
    \/ \E i \in 1..MaxLoads : LoadAllSubmissionsFailure(i)
    \/ \E i \in 1..MaxLoads, answer \in DatasetAnswers : LoadAllDatasetsResponse(i, answer)
    \/ DatasetsLoadStart
    \/ \E i \in 1..MaxLoads, answer \in LoadAnswers : DatasetsLoadResponse(i, answer)
    \/ \E m \in Metrics : SetMetric(m)
    \/ \E i \in DOMAIN lbLoads, ok \in BOOLEAN : BoardDatasetsResponse(i, ok)
    \/ \E i \in DOMAIN lbLoads, ok \in BOOLEAN : BoardLeaderboardResponse(i, ok)

SpecLists == InitLists /\ [][NextLists]_vars

----------------------------------------------------------------------------
(* Datasets view: paging *)

\* Math.max(1, page - 1)
PrevOf(pg) == IF pg - 1 < 1 THEN 1 ELSE pg - 1

\* onClick={() => setPage(...)} of Prev and Next, and the effect on [page]: a
\* page that does not change renders nothing anew and runs no effect
DatasetsSetPage(newPage) ==
    /\ Screen = "Datasets"
    /\ newPage <= MaxPage
    /\ IF newPage = page
       THEN /\ sent' = << >>
            /\ UNCHANGED <<page, dsLoading, loads>>
       ELSE /\ Len(loads) <= MaxLoads
            /\ page' = newPage
            /\ dsLoading' = TRUE
            /\ loads' = Append(loads, [page |-> newPage, headers |-> authHeader(token),
                                       by |-> "effect"])
            /\ sent' = <<DatasetsLoadRequest(newPage, authHeader(token))>>
    /\ lastOp' = "setPage"
    /\ UNCHANGED <<items, total, dsMsg>>
    /\ UNCHANGED <<token, user, storage, location, pendingLogins, pendingMe, err>>
    /\ UNCHANGED backendVars /\ UNCHANGED submissionsVars /\ UNCHANGED pageVars
    /\ UNCHANGED formVars /\ UNCHANGED boardVars

\* the Datasets view of an administrator who turns pages and uploads
InitPaging ==
    /\ DatasetsMounted
    /\ srvSubmissions = Arr(<< >>)
    /\ srvDatasets \in {Arr(<<Obj("id" :> Num(1))>>),
                        Obj(("items" :> Arr(<<Obj("id" :> Num(1))>>)) @@ ("total" :> Num(3)))}

NextPaging ==
    \/ DatasetsSetPage(PrevOf(page))
    \/ DatasetsSetPage(page + 1)
    \/ \E i \in DOMAIN loads, answer \in LoadAnswers : DatasetsLoadResponse(i, answer)
    \/ \E f \in GtFiles : SelectGtFile(f)
    \/ UploadSubmit
    \/ \E i \in DOMAIN uploads, answer \in UploadAnswers : UploadResponse(i, answer)

SpecPaging == InitPaging /\ [][NextPaging]_vars

----------------------------------------------------------------------------
(* Submissions page (pages/Submissions.jsx): the filter and the paging *)

\* the values of the options of the filter select: '' for All, then the datasets
PageOptions ==
    LET list == Get(pgDatasets, "items") IN
    {<< >>} \cup (IF IsArray(list)
                  THEN {ToText(Get(list.list[n], "id")) : n \in DOMAIN list.list}
                  ELSE {})

\* onChange={e=>setDatasetId(e.target.value)} and the effect on [page, datasetId]
PageSelectDataset(v) ==
    /\ Screen = "Submissions"
    /\ v \in PageOptions
    /\ v # pgDatasetId
    /\ Len(pgRequests) <= MaxLoads
    /\ pgDatasetId' = v
    /\ pgRequests' = pgRequests \o PageLoadRequests(pgPage, v)
    /\ sent' = PageLoadSent(pgPage, v, token)
    /\ lastOp' = "page:select"
    /\ UNCHANGED <<pgDatasets, pgItems, pgPage, unhandled>>
    /\ UNCHANGED <<token, user, storage, location, pendingLogins, pendingMe, err>>
    /\ UNCHANGED backendVars /\ UNCHANGED submissionsVars /\ UNCHANGED datasetsVars
    /\ UNCHANGED formVars /\ UNCHANGED boardVars

\* onClick={()=>setPage(...)} of Prev and Next and the effect on [page, datasetId]
PageSetPage(newPage) ==
    /\ Screen = "Submissions"
    /\ newPage <= MaxPage
    /\ IF newPage = pgPage
       THEN /\ sent' = << >>
            /\ UNCHANGED <<pgPage, pgRequests>>
       ELSE /\ Len(pgRequests) <= MaxLoads
            /\ pgPage' = newPage
            /\ pgRequests' = pgRequests \o PageLoadRequests(newPage, pgDatasetId)
            /\ sent' = PageLoadSent(newPage, pgDatasetId, token)
    /\ lastOp' = "page:setPage"
    /\ UNCHANGED <<pgDatasets, pgItems, pgDatasetId, unhandled>>
    /\ UNCHANGED <<token, user, storage, location, pendingLogins, pendingMe, err>>
    /\ UNCHANGED backendVars /\ UNCHANGED submissionsVars /\ UNCHANGED datasetsVars
    /\ UNCHANGED formVars /\ UNCHANGED boardVars

\* the page mounted over a backend that holds one submission and one or two
\* datasets, official or not
InitFilter ==
    /\ InitPage
    /\ srvDatasets \in {Obj("items" :> Arr(<<Obj("id" :> Num(1) @@ "is_official" :> Bool(b)),
                                             Obj("id" :> Num(2) @@ "is_official" :> Bool(TRUE))>>)) :
                          b \in BOOLEAN}
                       \cup {Obj("items" :> Arr(<<Obj("id" :> Num(1) @@ "is_official" :> Bool(FALSE))>>))}
    /\ Len(srvSubmissions.list) = 1

NextFilter ==
    \/ \E i \in DOMAIN pgRequests, ok \in BOOLEAN : PageDatasetsResponse(i, ok)
    \/ \E i \in DOMAIN pgRequests, ok \in BOOLEAN : PageSubmissionsResponse(i, ok)
    \/ \E v \in PageOptions : PageSelectDataset(v)
    \/ PageSetPage(PrevOf(pgPage))
    \/ PageSetPage(pgPage + 1)

SpecFilter == InitFilter /\ [][NextFilter]_vars

----------------------------------------------------------------------------
(* Session store and navigation shell: properties *)

HasStoredToken == \E p \in storage : p[1] = "token"

\* the profile fetches among the requests of the last handler
MeFetches == SelectSeq(sent, LAMBDA r : r.path = "/users/me")

\* C1: after logout() the session holds an empty credential and no profile, and
\* the credential key is gone from durable storage, whatever the state before.
C1_LogoutClearsSession ==
    lastOp = "logout" => token = "" /\ user = NoUser /\ ~HasStoredToken

\* a logout that ran while a profile fetch was still unanswered
C1_Witness ==
    lastOp = "logout" /\ token = "" /\ \E t \in Tokens : pendingMe[t] > 0

\* C2: a failed profile fetch clears the credential and the profile and removes
\* the stored credential.
C2_ProfileFailureClearsSession ==
    lastOp = "meFail" => token = "" /\ user = NoUser /\ ~HasStoredToken

\* a profile fetch failed and a login is still unanswered
C2_Witness ==
    lastOp = "meFail" /\ ~HasStoredToken /\ pendingLogins > 0

\* C3: after every completed session-store step the stored credential equals the
\* credential in memory: identical when one is held, absent when none is held.
C3_StorageMatchesCredential ==
    /\ token # "" => storage = {<<"token", token>>}
    /\ token = "" => ~HasStoredToken

\* a second login has replaced the credential of the first
C3_Witness ==
    /\ lastOp = "loginOk"
    /\ storage = {<<"token", token>>}
    /\ \E t \in Tokens : t # token /\ pendingMe[t] > 0

\* C4 as stated: a login answered with an access token stores the token and is
\* followed by exactly one profile fetch carrying Authorization: Bearer <token>.
C4_LoginIssuesExactlyOneProfileFetch ==
    lastOp = "loginOk" =>
        /\ token # ""
        /\ storage = {<<"token", token>>}
        /\ MeFetches = <<MeRequest(token)>>

\* C4 amended: the login stores the token; it is followed by exactly one profile
\* fetch carrying Bearer <token> when the token differs from the credential held
\* until then, and by no profile fetch when it equals the credential already held.
C4_LoginIssuesProfileFetchOnChange ==
    [][lastOp' = "loginOk" =>
          /\ token' # ""
          /\ storage' = {<<"token", token'>>}
          /\ SelectSeq(sent', LAMBDA r : r.path = "/users/me")
                = IF token' # token THEN <<MeRequest(token')>> ELSE << >>]_vars

\* a login was answered and its profile fetch carries the new token
C4_Witness ==
    /\ lastOp = "loginOk"
    /\ MeFetches = <<[by |-> "session", method |-> "GET", path |-> "/users/me",
                      headers |-> {<<"Authorization", "Bearer abc">>}]>>
    /\ token = "abc"
    /\ storage = {<<"token", "abc">>}

\* C5 as stated: every request a view issues while a credential is held carries
\* the bearer credential; the header is absent only when no credential is held.
C5_ViewRequestsCarryBearer ==
    \A i \in DOMAIN sent :
        sent[i].by = "view" =>
            sent[i].headers = IF token # ""
                              THEN {<<"Authorization", "Bearer " \o token>>}
                              ELSE {}

C7_RoleGuard ==
    /\ Screen = "ApiTest" => user # NoUser /\ user.role \in {"admin"}
    /\ (location = "/apitest" /\ user # NoUser /\ user.role \notin {"admin"})
          => Screen = "PermissionDenied"

\* a signed-in non-admin on the guarded route
C7_Witness ==
    location = "/apitest" /\ user # NoUser /\ user.role = "user"
        /\ Screen = "PermissionDenied"

----------------------------------------------------------------------------
(* Response normalizer: properties *)

\* the first of items, results, data and the payload itself that is there, when it
\* is a sequence, and the empty sequence otherwise
C8_ExtractedList(json) ==
    LET v == Coalesce(Coalesce(Coalesce(Get(json, "items"), Get(json, "results")),
                               Get(json, "data")), json)
    IN  IF IsArray(v) THEN v ELSE Arr(<< >>)

\* the lists of the Submissions view are sequences, extracted as C8 says
C8_SubmissionsViewLists ==
    /\ IsArray(submissions)
    /\ IsArray(datasets)
    /\ lastOp = "loadAll:submissions" =>
          LET list == C8_ExtractedList(srvSubmissions).list IN
          /\ Len(submissions.list) = Len(list)
          /\ \A i \in DOMAIN list : Get(submissions.list[i], "id") = Get(list[i], "id")
    /\ lastOp = "loadAll:datasets" => datasets = C8_ExtractedList(srvDatasets)

\* the list of the Datasets view is a sequence, extracted as C8 says
C8_DatasetsViewList ==
    /\ IsArray(items)
    /\ lastOp = "load:ok" => items = C8_ExtractedList(srvDatasets)

\* C8: for every payload of a list request, the stored list is the value under
\* items if present, else under results, else under data, else the payload itself,
\* else the empty sequence, and it is always a sequence.
C8_ListExtraction == C8_SubmissionsViewLists /\ C8_DatasetsViewList

\* JSON.parse of a string, undefined when it fails; any other value as it is
C9_Parsed(v) ==
    IF v.k = "string"
    THEN LET r == JSONParse(v.text) IN IF r.ok THEN r.val ELSE Undefined
    ELSE v

\* score_json counts as given when it is an object or a non-empty string
C9_Given(v) == Truthy(v) /\ TypeOf(v) \in {"string", "object"}

\* metrics as C9 words it: the parsed score_json when score_json is a string,
\* score_json itself when it is an object, the parsed metrics when metrics is a string
C9_MetricsAsClaimed(rec) ==
    LET sj == Get(rec, "score_json") IN
    IF C9_Given(sj) THEN C9_Parsed(sj) ELSE C9_Parsed(Get(rec, "metrics"))

\* metrics as loadAll takes it: a score_json object stands in only for a record
\* that has no metrics of its own
C9_MetricsAsAmended(rec) ==
    LET sj == Get(rec, "score_json") IN
    IF C9_Given(sj) /\ TypeOf(sj) = "string" THEN C9_Parsed(C9_Parsed(sj))
    ELSE IF C9_Given(sj) THEN C9_Parsed(Coalesce(Get(rec, "metrics"), sj))
    ELSE C9_Parsed(Get(rec, "metrics"))

\* the top-level field if present, else metrics[key], else metrics.results[key]
C9_Filled(rec, m, key) ==
    LET res == Get(m, "results") IN
    IF Get(rec, key) # Undefined THEN Get(rec, key)
    ELSE IF Get(m, key) # Undefined THEN Get(m, key)
    ELSE Get(res, key)

\* accuracy defaults to auc when absent (the cross-field rule that follows)
C9_Expected(rec, m, key) ==
    IF key = "accuracy" /\ C9_Filled(rec, m, key) = Undefined
    THEN C9_Filled(rec, m, "auc")
    ELSE C9_Filled(rec, m, key)

\* C9 as stated: for every submission record and each key of f1, precision,
\* recall, accuracy, auc, the normalized value is the top-level field if present,
\* else metrics[key], else metrics.results[key], where metrics is the parsed
\* score_json when score_json is a string, score_json itself when it is an object,
\* and the parsed metrics when metrics is a string.
C9_PromotionAsClaimed ==
    lastOp = "loadAll:submissions" =>
       \A i \in DOMAIN srvSubmissions.list : \A key \in MetricKeySet :
          Get(submissions.list[i], key) =
             C9_Expected(srvSubmissions.list[i],
                         C9_MetricsAsClaimed(srvSubmissions.list[i]), key)

\* C9 as the code has it: for every submission record and each key of f1,
\* precision, recall, accuracy, auc, the normalized value is the top-level field if
\* present, else metrics[key], else metrics.results[key], where metrics is the
\* parsed score_json when score_json is a non-empty string (parsed once more when
\* what it decodes to is a string), otherwise the record's own metrics (parsed when
\* a string) when it has one, and score_json itself only when score_json is an
\* object and the record has no metrics.
C9_PromotionAsAmended ==
    lastOp = "loadAll:submissions" =>
       \A i \in DOMAIN srvSubmissions.list : \A key \in MetricKeySet :
          Get(submissions.list[i], key) =
             C9_Expected(srvSubmissions.list[i],
                         C9_MetricsAsAmended(srvSubmissions.list[i]), key)

\* a record with a score_json object and metrics of its own that disagree on a key
\* has been normalized, and so has one whose metrics hold a key twice
C9_Witness ==
    /\ lastOp = "loadAll:submissions"
    /\ \E i \in DOMAIN srvSubmissions.list :
          LET rec == srvSubmissions.list[i]
              sj == Get(rec, "score_json")
              m == Get(rec, "metrics")
          IN  \/ /\ sj.k = "object" /\ m.k = "object"
                 /\ Get(rec, "f1") = Undefined
                 /\ Get(sj, "f1") # Undefined /\ Get(m, "f1") # Undefined
                 /\ Get(sj, "f1") # Get(m, "f1")
                 /\ Get(submissions.list[i], "f1") = Get(m, "f1")
              \/ /\ sj = Undefined /\ m.k = "object"
                 /\ Get(rec, "auc") = Undefined
                 /\ Get(m, "auc") = Num(3)
                 /\ Get(Get(m, "results"), "auc") = Num(4)
                 /\ Get(submissions.list[i], "auc") = Num(3)

\* the record carries V, and nothing else, in each of score_json and metrics it has
C10_CarrierOf(rec, V) ==
    /\ rec.k = "object"
    /\ DOMAIN rec.f \subseteq {"id", "score_json", "metrics"}
    /\ DOMAIN rec.f \cap {"score_json", "metrics"} # {}
    /\ \A x \in DOMAIN rec.f \cap {"score_json", "metrics"} :
          \E nesting \in {"direct", "results"} :
             \/ rec.f[x] = Nest(V, nesting)
             \/ rec.f[x] = Str(Encode(Nest(V, nesting)))

C10_Five(copy) == [key \in MetricKeySet |-> Get(copy, key)]

\* C10: for every set of metric values, submissions carrying them as a score_json
\* string, as a score_json object, as a metrics string or object, directly or
\* nested under results, in one of these sources or in two at once, normalize to
\* identical f1, precision, recall, accuracy and auc fields.
C10_SourcesAgree ==
    lastOp = "loadAll:submissions" =>
       \A i, j \in DOMAIN srvSubmissions.list :
          i < j =>
             \A V \in ValueSets :
                C10_CarrierOf(srvSubmissions.list[i], V)
                   /\ C10_CarrierOf(srvSubmissions.list[j], V)
                => C10_Five(submissions.list[i]) = C10_Five(submissions.list[j])

\* a value set with a zero in it has been normalized from a score_json string and
\* from a record carrying it in a score_json object and, under results, in a
\* metrics string
C10_Witness ==
    /\ lastOp = "loadAll:submissions"
    /\ Len(srvSubmissions.list) = 2
    /\ \E V \in ValueSets :
          /\ DOMAIN V = {"f1", "auc"} /\ V["f1"] = 0 /\ V["auc"] = 1
          /\ srvSubmissions.list[1] = Carrier(V, <<"string", "direct">>, <<"absent", "direct">>)
          /\ srvSubmissions.list[2] = Carrier(V, <<"object", "direct">>, <<"string", "results">>)
          /\ Get(submissions.list[1], "f1") = Num(0)
          /\ Get(submissions.list[2], "accuracy") = Num(1)

\* normalizing the normalized records once more changes none of them
C11_SecondPassIsNoOp ==
    lastOp = "loadAll:submissions" =>
       \A i \in DOMAIN submissions.list :
          NormalizeSubmission(submissions.list[i]) = submissions.list[i]

\* every field of an input record has its input value in the normalized record; a
\* metrics text may have been replaced by the value it decodes to
C11_InputFieldsKept ==
    lastOp = "loadAll:submissions" =>
       \A i \in DOMAIN srvSubmissions.list :
          LET in == srvSubmissions.list[i]
              out == submissions.list[i]
          IN  \A key \in DOMAIN in.f :
                 \/ Get(out, key) = in.f[key]
                 \/ /\ key = "metrics"
                    /\ in.f[key].k = "string"
                    /\ JSONParse(in.f[key].text).ok
                    /\ Get(out, key) = JSONParse(in.f[key].text).val

\* C11: submission normalization is idempotent: normalizing the normalized record
\* again yields the same record, and no field already present on the input
\* (including metrics, uploaded_at and filename) is overwritten by a fallback rule.
C11_Idempotent == C11_SecondPassIsNoOp /\ C11_InputFieldsKept

\* a non-empty text that JSON.parse rejects
C12_Unparsable(v) == v.k = "string" /\ v.text # << >> /\ ~JSONParse(v.text).ok

\* the record without the fields named
C12_Without(rec, keys) == Obj([x \in (DOMAIN rec.f) \ keys |-> rec.f[x]])

\* the step in which an ok answer to the submissions request is processed
C12_Answered ==
    /\ \E i \in DOMAIN loadAlls : loadAlls[i].stage = "submissions"
    /\ lastOp' \notin {"loadAll:failed", "loadAll:rejected"}
    /\ IsArray(srvSubmissions)

\* the record is one whose score_json, or whose metrics while score_json is no
\* text, does not parse
C12_Case(in) ==
    LET sj == Get(in, "score_json") IN
    \/ C12_Unparsable(sj)
    \/ C12_Unparsable(Get(in, "metrics")) /\ ~(sj.k = "string" /\ sj.text # << >>)

\* C12 as stated: when a string-encoded score_json or metrics field of a
\* submission is not valid JSON, normalization raises no error, shows no message,
\* and leaves the metrics field unset; the rest of the record is still normalized.
C12_ParseFailureLeavesMetricsUnset ==
    [][C12_Answered =>
         \A i \in DOMAIN srvSubmissions.list :
            C12_Case(srvSubmissions.list[i]) =>
               /\ lastOp' = "loadAll:submissions"
               /\ subMsg' = subMsg
               /\ Get(submissions'.list[i], "metrics") = Undefined]_vars

\* C12 as the code has it: when a non-empty score_json string is not valid JSON the
\* metrics field is left unset, whatever metrics the record had; when score_json is
\* no such string and a non-empty metrics string is not valid JSON the metrics field
\* keeps that string; in both cases no error is raised, no message is shown, no
\* metric is promoted from score_json or metrics, and every other field is
\* normalized as it is for the record without the two.
C12_ParseFailureSwallowed ==
    [][C12_Answered =>
         \A i \in DOMAIN srvSubmissions.list :
            LET in == srvSubmissions.list[i]
                sj == Get(in, "score_json")
                out == submissions'.list[i]
                rest == C12_Without(in, {"score_json", "metrics"})
            IN  C12_Case(in) =>
                   /\ lastOp' = "loadAll:submissions"
                   /\ subMsg' = subMsg
                   /\ Get(out, "metrics") =
                         IF C12_Unparsable(sj) THEN Undefined ELSE Get(in, "metrics")
                   /\ Get(out, "score_json") = sj
                   /\ \A key \in MetricKeySet : Get(out, key) = C9_Expected(in, Undefined, key)
                   /\ C12_Without(out, {"score_json", "metrics"}) = NormalizeSubmission(rest)]_vars

\* a record with metrics of its own and a score_json that does not parse has been
\* normalized: its metrics is unset, its time and filename are filled
C12_Witness ==
    /\ lastOp = "loadAll:submissions"
    /\ \E i \in DOMAIN srvSubmissions.list :
          /\ C12_Unparsable(Get(srvSubmissions.list[i], "score_json"))
          /\ Get(Get(srvSubmissions.list[i], "metrics"), "auc") = Num(3)
          /\ "metrics" \in DOMAIN submissions.list[i].f
          /\ Get(submissions.list[i], "metrics") = Undefined
          /\ Get(submissions.list[i], "auc") = Undefined
          /\ Get(submissions.list[i], "uploaded_at") = Str(<<Word("2025-01-01")>>)
          /\ Get(submissions.list[i], "filename") = Str(<<Word("a.csv")>>)

\* C13: after normalization of any submission, accuracy equals the record's own
\* accuracy (its field, or the one promoted from its metrics) when it has one and
\* otherwise its auc, and score equals the record's own score when it has one,
\* otherwise its auc, otherwise its accuracy; each of the two is unset only when
\* all of its fallbacks are unset.
C13_CrossFieldFallback ==
    lastOp = "loadAll:submissions" =>
       \A i \in DOMAIN srvSubmissions.list :
          LET in == srvSubmissions.list[i]
              out == submissions.list[i]
              own == C9_Filled(in, C9_MetricsAsAmended(in), "accuracy")
          IN  /\ Get(out, "accuracy") = IF own # Undefined THEN own ELSE Get(out, "auc")
              /\ Get(out, "score") =
                    IF Get(in, "score") # Undefined THEN Get(in, "score")
                    ELSE IF Get(out, "auc") # Undefined THEN Get(out, "auc")
                    ELSE Get(out, "accuracy")
              /\ Get(out, "auc") = C9_Filled(in, C9_MetricsAsAmended(in), "auc")

\* a record with no score whose metrics hold an accuracy and, under results, another
\* auc has been normalized: its score is that auc
C13_Witness ==
    /\ lastOp = "loadAll:submissions"
    /\ \E i \in DOMAIN srvSubmissions.list :
          LET in == srvSubmissions.list[i]
              out == submissions.list[i]
          IN  /\ Get(in, "score") = Undefined
              /\ Get(in, "accuracy") = Undefined
              /\ Get(out, "accuracy") = Num(3)
              /\ Get(out, "auc") = Num(4)
              /\ Get(out, "score") = Num(4)

\* the submission of the scenario: score_json = {AUC: 0.91} and no other source
C14_Scenario(rec) ==
    /\ Get(rec, "score_json") = Obj("AUC" :> Dec(91))
    /\ Get(rec, "metrics") = Undefined
    /\ \A key \in MetricKeySet \cup {"score"} : Get(rec, key) = Undefined

\* the Submissions view (loadAll variant) shows the scenario's AUC, and the same
\* value as Accuracy
C14_ScenarioInView ==
    \A i \in DOMAIN pgItems.f["items"].list :
       LET rec == pgItems.f["items"].list[i] IN
       C14_Scenario(rec) =>
          /\ MetricCell(NormalizeSubmission(rec), "auc") # Dash
          /\ MetricCell(NormalizeSubmission(rec), "accuracy")
                = MetricCell(NormalizeSubmission(rec), "auc")

\* C14: a submission whose only metrics source is score_json = {AUC: 0.91} is
\* displayed with AUC 0.9100 and with an Accuracy equal to that same AUC value,
\* because no explicit accuracy field exists.
C14_ScenarioDisplayed ==
    \A i \in DOMAIN pgItems.f["items"].list :
       LET rec == pgItems.f["items"].list[i] IN
       C14_Scenario(rec) =>
          /\ PageMetricsShown(rec)
          /\ PageCell(rec, "AUC") = <<Fixed(Dec(91), 4)>>
          /\ PageCell(rec, "Accuracy") = <<Fixed(Dec(91), 4)>>

\* C15: a dataset record whose stats_json field is a JSON-encoded string (for
\* example one encoding total_rows = 10) is displayed with the statistics decoded
\* from that string: the Total shown is the encoded total_rows.
C15_StatsJsonStringDisplayed ==
    lastOp = "load:ok" /\ IsArray(items) =>
       \A i \in DOMAIN items.list :
          LET d == items.list[i]
              sj == Get(d, "stats_json")
          IN  sj.k = "string" /\ JSONParse(sj.text).ok
                 /\ Get(JSONParse(sj.text).val, "total_rows") # Undefined
              => /\ StatsShown(d)
                 /\ TotalCell(d) = Get(JSONParse(sj.text).val, "total_rows")

\* the statistics of a dataset that carries them as a stats string, a stats_raw
\* string, a stats object or a stats_json object are decoded and shown
C15_OtherShapesDisplayed ==
    lastOp = "load:ok" /\ IsArray(items) =>
       \A i \in DOMAIN items.list :
          LET d == items.list[i] IN
          \A field \in {"stats", "stats_raw", "stats_json"} :
             LET v == Get(d, field)
                 blob == IF v.k = "string" /\ field # "stats_json" THEN JSONParse(v.text).val ELSE v
             IN  blob.k = "object" /\ Get(blob, "total_rows") # Undefined
                    /\ (v.k = "object" => field # "stats_raw")
                 => StatsShown(d) /\ TotalCell(d) = Get(blob, "total_rows")

----------------------------------------------------------------------------
(* Datasets view, upload form: properties *)

\* the handler upload ran up to its first await or return
C16_Submitted == lastOp' \in {"upload", "upload:required"}

\* what a rejected submit leaves behind: the message, no request, the list as it was
C16_Rejected ==
    /\ dsMsg' = "Ground truth CSV required"
    /\ sent' = << >>
    /\ uploads' = uploads
    /\ loads' = loads
    /\ items' = items
    /\ total' = total

\* C16: submitting the upload form while no ground-truth file is selected sets
\* the message to "Ground truth CSV required", issues no request and leaves
\* the dataset list unchanged; a submit that directly follows a successful
\* upload is such a submit, because the upload cleared the selected files.
C16_NoGroundTruthRejected ==
    [][/\ (C16_Submitted /\ gtFile = "") => C16_Rejected
       /\ (C16_Submitted /\ lastOp = "upload:ok") => (gtFile = "" /\ C16_Rejected)]_vars

\* a submit was rejected while the load that the successful upload before it
\* started is still in flight
C16_Witness ==
    /\ lastOp = "upload:required"
    /\ dsMsg = "Ground truth CSV required"
    /\ uploads = << >>
    /\ \E i \in DOMAIN loads : loads[i].by = "upload"

----------------------------------------------------------------------------
(* Failed list fetches: properties *)

\* C17 (Submissions page): a list fetch that fails is caught and leaves the view
\* with an empty result list; no failed fetch leaves a rejected request that no
\* handler received, or a list that is not a sequence.
C17_PageFailureCaught ==
    lastOp \in {"page:datasets:rejected", "page:submissions:rejected"} =>
        /\ unhandled = {}
        /\ Get(pgItems, "items") = Arr(<< >>)

\* C17 (Datasets view): a failed fetch of load leaves an empty list and a message
C17_DatasetsFailureCaught ==
    lastOp \in {"load:catch", "load:401"} =>
        /\ items = Arr(<< >>)
        /\ dsMsg \in {"Failed to load datasets", "Unauthorized - please login"}

\* C17 (Submissions view of part_000): a failed fetch of loadAll leaves empty lists
\* and a message
C17_LoadAllFailureCaught ==
    lastOp = "loadAll:failed" =>
        /\ submissions = Arr(<< >>)
        /\ datasets = Arr(<< >>)
        /\ subMsg = "Failed to load submissions/datasets"

\* C17 (Leaderboard view): a failed fetch of load leaves empty lists; the view has
\* no message state
C17_BoardFailureCaught ==
    lastOp = "board:catch" => (lbItems = Arr(<< >>) /\ lbDatasets = Arr(<< >>))

----------------------------------------------------------------------------
(* Submissions page, concurrent requests: properties *)

\* every request of the page has been answered and none was rejected
C18_Settled == pgRequests = << >> /\ unhandled = {}

\* C18: the responses of the dataset-list request and of the submission-list
\* request write disjoint state, so once every request is answered the view
\* state is the same whatever the order of the answers: the datasets as
\* answered, and the submissions of the dataset filter the view ends with.
C18_OrderIndependent ==
    C18_Settled =>
        /\ pgDatasets = srvDatasets
        /\ pgItems = PageSubmissionsAnswer(pgDatasetId)

\* C18 (the slices themselves): the datasets response writes nothing but
\* `datasets`, and the submissions response nothing but `items`
C18_DisjointSlices ==
    [][/\ lastOp' \in {"page:datasets", "page:datasets:throw"} => pgDatasetId' = pgDatasetId
       /\ lastOp' = "page:submissions" => pgDatasets' = pgDatasets]_vars

----------------------------------------------------------------------------
(* Empty lists: properties *)

\* the answers whose list, bare or under items, results or data, is empty
C19_EmptyAnswers == WrappedLists(Arr(<< >>))

\* C19: whenever a list view has finished loading and the list it extracted from
\* the answer is empty, it renders its no-items placeholder and never an error
\* state: the Datasets view, the Submissions view and the Leaderboard view.
C19_EmptyListPlaceholder ==
    /\ (lastOp = "load:ok" /\ srvDatasets \in C19_EmptyAnswers) =>
           /\ DatasetsRegion = "No datasets found. Upload a dataset to get started."
           /\ dsMsg = ""
    /\ (lastOp \in {"loadAll:datasets", "loadAll:datasets:caught"}
            /\ srvSubmissions \in C19_EmptyAnswers) =>
           SubmissionsRegion = "No submissions found."
    /\ (lastOp = "board:leaderboard" /\ srvLeaderboard \in C19_EmptyAnswers) =>
           BoardRegion = "No submissions found for the selected dataset/metric."

\* the Leaderboard view has loaded an answer whose empty list is not under items
C19_Witness ==
    /\ lastOp = "board:leaderboard"
    /\ srvLeaderboard = Obj("results" :> Arr(<< >>))
    /\ lbLoads = << >>
    /\ BoardRegion = "No submissions found for the selected dataset/metric."

\* the Datasets view has loaded an empty list
C19_WitnessDatasets ==
    /\ lastOp = "load:ok"
    /\ srvDatasets = Obj("data" :> Arr(<< >>))
    /\ DatasetsRegion = "No datasets found. Upload a dataset to get started."

\* the Submissions view has loaded an empty list
C19_WitnessSubmissions ==
    /\ lastOp = "loadAll:datasets"
    /\ srvSubmissions = Obj("items" :> Arr(<< >>))
    /\ SubmissionsRegion = "No submissions found."

----------------------------------------------------------------------------
(* Filename fallback: properties *)

\* what follows the last token c of a text, the whole text when c is not in it
RECURSIVE C20_Tail(_, _)
C20_Tail(text, c) ==
    IF text = << >> \/ text[Len(text)] = Punct(c) THEN << >>
    ELSE Append(C20_Tail(SubSeq(text, 1, Len(text) - 1), c), text[Len(text)])

C20_Fields == <<"file_name", "file_path", "path", "storage_path">>

\* the first of the four fields that is not empty, Undefined when none is
C20_First(rec) ==
    LET filled == {n \in DOMAIN C20_Fields : Truthy(Get(rec, C20_Fields[n]))} IN
    IF filled = {} THEN Undefined
    ELSE Get(rec, C20_Fields[CHOOSE n \in filled : \A m \in filled : n <= m])

\* C20: for a submission with no filename, the normalized filename is the last
\* path segment (what follows the last '/', and of that what follows the last
\* '\') of the first non-empty field among file_name, file_path, path and
\* storage_path, in that order; a submission that has a filename keeps it, and
\* one with none of the four fields keeps its filename as it was, unset if unset.
C20_FilenameFallback ==
    lastOp = "loadAll:submissions" =>
       \A i \in DOMAIN srvSubmissions.list :
          LET in == srvSubmissions.list[i]
              out == submissions.list[i]
              first == C20_First(in)
          IN  IF Truthy(Get(in, "filename")) THEN Get(out, "filename") = Get(in, "filename")
              ELSE IF first # Undefined
              THEN Get(out, "filename") = Str(C20_Tail(C20_Tail(ToText(first), "/"), "\\"))
              ELSE /\ Get(out, "filename") = Get(in, "filename")
                   /\ ("filename" \in DOMAIN out.f) = ("filename" \in DOMAIN in.f)

\* a record with no filename and an empty file_name has been normalized: its
\* filename is the last segment of a file_path that holds both separators
C20_Witness ==
    /\ lastOp = "loadAll:submissions"
    /\ \E i \in DOMAIN srvSubmissions.list :
          LET in == srvSubmissions.list[i]
              out == submissions.list[i]
          IN  /\ "filename" \notin DOMAIN in.f
              /\ Get(in, "file_name") = Str(<< >>)
              /\ Get(in, "file_path") =
                    Str(<<Word("x"), Punct("\\"), Word("y"), Punct("/"), Word("z"),
                          Punct("\\"), Word("c.csv")>>)
              /\ Get(out, "filename") = Str(<<Word("c.csv")>>)

----------------------------------------------------------------------------
(* Datasets view, a 401 answer: properties *)

\* C21: a 401 answer to the dataset-list request leaves the session untouched
\* (credential, profile and stored credential unchanged); the view only sets
\* the message "Unauthorized - please login", an empty list, total 0 and loading
\* false.
C21_UnauthorizedLeavesSession ==
    [][lastOp' = "load:401" =>
          /\ token' = token /\ user' = user /\ storage' = storage
          /\ location' = location
          /\ dsMsg' = "Unauthorized - please login"
          /\ items' = Arr(<< >>)
          /\ total' = Num(0)
          /\ dsLoading' = FALSE
          /\ page' = page
          /\ UNCHANGED formVars]_vars

\* the load of a signed-in administrator was answered 401 although the backend
\* holds datasets: the session is still there
C21_Witness ==
    /\ lastOp = "load:401"
    /\ token = "abc" /\ storage = {<<"token", "abc">>} /\ user = ProfileOf("abc")
    /\ dsMsg = "Unauthorized - please login"
    /\ items = Arr(<< >>) /\ total = Num(0) /\ ~dsLoading
    /\ srvDatasets = Arr(<<Obj("id" :> Num(1))>>)

----------------------------------------------------------------------------
(* Rejected login: properties *)

\* C22: a login that the backend rejects leaves the session unchanged (the
\* credential in memory, the stored credential and the profile are as before,
\* none when the form was showing; no profile fetch is issued) and shows the
\* backend's detail message, or "Login failed" when there is none, on the login
\* form.
C22_RejectedLoginLeavesSession ==
    [][lastOp' = "loginFail" =>
          /\ token' = token /\ storage' = storage /\ user' = user
          /\ pendingMe' = pendingMe
          /\ sent' = << >>
          /\ location' = location
          /\ Screen = "LoginForm" =>
                /\ token' = "" /\ ~HasStoredToken'
                /\ err' \in (LoginDetails \ {""}) \cup {"Login failed"}
                /\ Screen' = "LoginForm"]_vars

\* a rejected login whose answer carried no detail: the form shows "Login failed"
C22_Witness ==
    /\ lastOp = "loginFail"
    /\ Screen = "LoginForm"
    /\ err = "Login failed"
    /\ token = "" /\ ~HasStoredToken /\ user = NoUser
    /\ \A t \in Tokens : pendingMe[t] = 0

----------------------------------------------------------------------------
(* Profile fetches of an earlier credential: properties *)

\* the profile fetch issued for credential t is answered in this step
C23_Answered(t) ==
    /\ lastOp' \in {"meOk", "meFail"}
    /\ pendingMe'[t] < pendingMe[t]

\* C23: the answer (success or failure) to a profile fetch issued for one
\* credential has no effect on the session once that credential is no longer the
\* current one: a late success does not set the profile and a late failure does
\* not clear the credential held now.
C23_StaleProfileAnswerIgnored ==
    [][\A t \in Tokens :
          (C23_Answered(t) /\ t # token) =>
              (token' = token /\ user' = user /\ storage' = storage)]_vars

\* C24: a profile is set only while a credential is held.
C24_ProfileImpliesCredential == user # NoUser => token # ""

----------------------------------------------------------------------------
(* Session store: progress *)

\* the session is cleared: no credential, no stored credential, the login view
C25_Cleared == token = "" /\ ~HasStoredToken /\ Screen = "LoginForm"

\* C25: when every issued request is eventually answered, a session that holds
\* a credential eventually either has its profile set or is cleared; it never
\* stays forever with a credential and no profile.
C25_CredentialResolves == (token # "") ~> (user # NoUser \/ C25_Cleared)

\* the profile fetch of the held credential failed with nothing else in flight:
\* the session is cleared
C25_Witness ==
    /\ lastOp = "meFail"
    /\ C25_Cleared
    /\ user = NoUser
    /\ pendingLogins = 0
    /\ \A t \in Tokens : pendingMe[t] = 0

----------------------------------------------------------------------------
(* Datasets view, overlapping loads: properties *)

\* C26: once all in-flight list requests have been answered, the displayed
\* items and total are those of the answer to the request for the current page,
\* whatever the order in which the answers to requests for earlier pages arrive.
C26_CurrentPageDisplayed ==
    (loads = << >> /\ uploads = << >> /\ lastOp = "load:ok") =>
        LET json == DatasetsAnswer(page)
            results == DatasetsResults(json)
        IN  /\ items = OrElse(results, Arr(<< >>))
            /\ total = DatasetsTotal(json, results)

\* C27: the loading flag is true in every state in which at least one
\* dataset-list request is in flight, also when two loads overlap, and it is
\* false once none is in flight.
C27_LoadingWhileInFlight == dsLoading <=> (loads # << >>)

----------------------------------------------------------------------------
(* Submissions page, the dataset filter: properties *)

\* C29: the dataset filter changes only by a user selection, so a value the
\* user selected, "All" included, is still the filter once the fetches that the
\* selection triggered have been answered.
C29_FilterChangesOnlyBySelection ==
    [][pgDatasetId' # pgDatasetId => lastOp' = "page:select"]_vars

\* C29 (the selection of "All"): when the answer to the dataset request of a
\* load issued under the filter "All" arrives while "All" is still selected, the
\* filter stays "All"
C29_AllStaysSelected ==
    [][\A i \in DOMAIN pgRequests :
          (/\ pgRequests[i].kind = "datasets"
           /\ pgRequests[i].datasetId = << >>
           /\ lastOp = "page:select"
           /\ pgDatasetId = << >>
           /\ lastOp' = "page:datasets"
           /\ Len(pgRequests) = 2) => pgDatasetId' = << >>]_vars

----------------------------------------------------------------------------
(* Paging: properties *)

\* the paths of the list requests of the Datasets view
C30_ListPaths == {DatasetsLoadRequest(pg, NoHeaders).path : pg \in 1..MaxPage}

\* C30 (Datasets view): the page number is at least 1 after any sequence of Prev
\* and Next actions, and every list request carries the current page number
\* with page_size 20.
C30_DatasetsRequestsCarryPage ==
    /\ [](page >= 1)
    /\ [][\A n \in DOMAIN sent' :
             sent'[n].path \in C30_ListPaths =>
                sent'[n].path = "/datasets?page=" \o ToString(page') \o "&page_size=20"]_vars

\* C30 (Submissions page): the page number is at least 1, and every submissions
\* request carries the current page number with page_size 20.
C30_PageRequestsCarryPage ==
    /\ [](pgPage >= 1)
    /\ [][\A n \in DOMAIN sent' :
             sent'[n].path # "/datasets/" =>
                \E rest \in {"", "&dataset_id=1", "&dataset_id=2"} :
                   sent'[n].path = "/submissions/?page=" \o ToString(pgPage')
                                      \o "&page_size=20" \o rest]_vars

----------------------------------------------------------------------------
(* Role-guarded route: properties *)

\* C28: an admin who opens the role-guarded /apitest route sees the API-test
\* view, also when the route is first rendered before the profile fetch has
\* been answered: the route is not left for another path.
C28_AdminReachesApiTest ==
    [][((Reload("/apitest") \/ GoTo("/apitest"))
          /\ token' # "" /\ ProfileOf(token').role = "admin")
       => location' = "/apitest"]_vars

\* once the route was left, the answer of the profile fetch does not return to it
C28_ProfileAnswerKeepsPath == [][lastOp' = "meOk" => location' = location]_vars

====
